---- MODULE Spec2Model ----
(***************************************************************************)
(* A model of csv-to-txf: the convert() pipeline (cli/convert.ts) as a     *)
(* state machine with one action per stage, and the pure functions it      *)
(* calls (parseAmount, parseDate, validateRow, lookupMerchant, ...) as     *)
(* operators over strings, computed the way the TypeScript computes them.  *)
(*                                                                         *)
(* Strings are TLA+ strings; Ch(s, i) is the i-th character.  A JavaScript *)
(* number is an exact decimal [m, e] standing for m / 10^e, normalised so  *)
(* that equal values are equal records.  A function that may throw returns *)
(* a record with ok = FALSE and the thrown error's name and message.       *)
(***************************************************************************)
EXTENDS Integers, Sequences, FiniteSets, TLC

VARIABLES
    pc,                   \* the stage convert() is about to run
    options,              \* ConvertOptions: category, dryRun, taxYear
    config,               \* Config returned by loadConfig
    csvRows,              \* CsvRow[]: parsed, then category-filtered
    merchantCheck,        \* result of validateAllMerchantsMapped
    rowValidation,        \* result of validateRows
    resolvedTransactions, \* ResolvedTransaction[]
    txfContent,           \* text returned by generateTxf
    warnings,             \* string[]
    errors,               \* string[]
    result,               \* the ConvertResult returned
    trace,                \* the stages executed so far, in order
    outputFile,           \* the destination file on disk
    filesRead,            \* the configuration and CSV files readFile was given
    call                  \* a single call of a pure function: fn, arg, done, ret

vars == <<pc, options, config, csvRows, merchantCheck, rowValidation,
          resolvedTransactions, txfContent, warnings, errors, result, trace,
          outputFile, filesRead, call>>

pipelineVars == <<pc, options, config, csvRows, merchantCheck, rowValidation,
                  resolvedTransactions, txfContent, warnings, errors, result,
                  trace, outputFile, filesRead>>

(***************************************************************************)
(* Bounds of the model.                                                    *)
(***************************************************************************)
MaxRows == 2
MaxAmountLen == 3

\* the longest list of merchant names validateAllMerchantsMapped is called on
MaxMerchants == 3

\* the longest list of transactions findDuplicates and generateTxf are called on
MaxTransactions == 4

(***************************************************************************)
(* Call by value.  An operator's argument is evaluated each time the       *)
(* operator's body reads it; F(v) with v evaluated once is ByValue(F, v).  *)
(* JavaScript evaluates every argument once, before the call.              *)
(***************************************************************************)
ByValue(F(_), v) == CHOOSE r \in {F(x) : x \in {v}} : TRUE

ByValue2(F(_, _), v, w) == CHOOSE r \in {F(x, y) : x \in {v}, y \in {w}} : TRUE

ByValue3(F(_, _, _), u, v, w) ==
    CHOOSE r \in {F(x, y, z) : x \in {u}, y \in {v}, z \in {w}} : TRUE

\* Array.prototype.map: the array of F(list[i]), each element computed once
ArrayMap(F(_), list) ==
    ByValue(LAMBDA a : [i \in 1..Len(a) |-> F(a[i])] \o <<>>, list)

\* 1, 2, ..., n
Indices(n) == [i \in 1..n |-> i] \o <<>>

(***************************************************************************)
(* Strings                                                                 *)
(***************************************************************************)
Ch(s, i) == IF i >= 1 /\ i <= Len(s) THEN SubSeq(s, i, i) ELSE ""

WhiteSpace == {" ", "\t", "\n", "\r"}

Digits == {"0", "1", "2", "3", "4", "5", "6", "7", "8", "9"}

UpperLetters == "ABCDEFGHIJKLMNOPQRSTUVWXYZ"

LowerLetters == "abcdefghijklmnopqrstuvwxyz"

SetMin(S) == ByValue(LAMBDA T : CHOOSE i \in T : \A j \in T : i <= j, S)

SetMax(S) == ByValue(LAMBDA T : CHOOSE i \in T : \A j \in T : i >= j, S)

\* the positions of s that hold no white space
Inked(s) == {i \in 1..Len(s) : SubSeq(s, i, i) \notin WhiteSpace}

\* String.prototype.trimStart
TrimStart(s) ==
    ByValue2(LAMBDA x, ink : IF ink = {} THEN "" ELSE SubSeq(x, SetMin(ink), Len(x)),
             s, Inked(s))

\* String.prototype.trimEnd
TrimEnd(s) ==
    ByValue2(LAMBDA x, ink : IF ink = {} THEN "" ELSE SubSeq(x, 1, SetMax(ink)),
             s, Inked(s))

\* String.prototype.trim
Trim(s) ==
    ByValue2(LAMBDA x, ink : IF ink = {} THEN ""
                             ELSE SubSeq(x, SetMin(ink), SetMax(ink)),
             s, Inked(s))

LowerChar(c) ==
    ByValue2(LAMBDA x, at : IF at = {} THEN x ELSE Ch(LowerLetters, SetMin(at)),
             c, {i \in 1..26 : SubSeq(UpperLetters, i, i) = c})

\* the lower-cased characters of s from position i on
RECURSIVE LowerFrom(_, _)
LowerFrom(s, i) ==
    IF i > Len(s) THEN ""
    ELSE LowerChar(SubSeq(s, i, i)) \o ByValue2(LowerFrom, s, i + 1)

\* String.prototype.toLowerCase
toLowerCase(s) == ByValue2(LowerFrom, s, 1)

\* String.prototype.includes
Includes(s, sub) ==
    ByValue2(LAMBDA x, y : \E i \in 1..(Len(x) - Len(y) + 1) :
                              SubSeq(x, i, i + Len(y) - 1) = y,
             s, sub)

\* the characters of s from position i on that are not in chars
RECURSIVE RemoveFrom(_, _, _)
RemoveFrom(s, chars, i) ==
    IF i > Len(s) THEN ""
    ELSE (IF SubSeq(s, i, i) \in chars THEN "" ELSE SubSeq(s, i, i))
         \o ByValue3(RemoveFrom, s, chars, i + 1)

\* s.replace(/[...]/g, '') for the character class chars
RemoveChars(s, chars) == ByValue3(RemoveFrom, s, chars, 1)

\* all strings over alphabet of length at most n
RECURSIVE StringsUpTo(_, _)
StringsUpTo(alphabet, n) ==
    IF n = 0 THEN {""}
    ELSE LET shorter == StringsUpTo(alphabet, n - 1)
         IN shorter \cup {s \o c : s \in shorter, c \in alphabet}

(***************************************************************************)
(* Numbers: m / 10^e, normalised (no trailing zero in the fraction).       *)
(***************************************************************************)
RECURSIVE Pow10(_)
Pow10(n) == IF n = 0 THEN 1 ELSE 10 * Pow10(n - 1)

RECURSIVE Norm(_, _)
Norm(m, e) ==
    IF e > 0 /\ m % 10 = 0 THEN ByValue2(Norm, m \div 10, e - 1)
    ELSE [m |-> m, e |-> e]

Max(a, b) == IF a >= b THEN a ELSE b

NumZero == [m |-> 0, e |-> 0]

NumNeg(x) == [m |-> 0 - x.m, e |-> x.e]

\* Math.abs
NumAbs(x) == ByValue(LAMBDA a : IF a.m < 0 THEN NumNeg(a) ELSE a, x)

NumAdd(x, y) ==
    ByValue2(LAMBDA a, b :
                 ByValue2(Norm,
                          a.m * Pow10(Max(a.e, b.e) - a.e)
                          + b.m * Pow10(Max(a.e, b.e) - b.e),
                          Max(a.e, b.e)),
             x, y)

NumGE(x, y) ==
    ByValue2(LAMBDA a, b : a.m * Pow10(Max(a.e, b.e) - a.e)
                           >= b.m * Pow10(Max(a.e, b.e) - b.e),
             x, y)

NumInt(n) == [m |-> n, e |-> 0]

DigitVal(c) == CHOOSE d \in 0..9 : ToString(d) = c

\* the length of the run of decimal digits of s that starts at position i
RECURSIVE DigitRun(_, _)
DigitRun(s, i) == IF Ch(s, i) \in Digits THEN 1 + DigitRun(s, i + 1) ELSE 0

\* the value of the first n characters of the digit string s
RECURSIVE DigitsValUpTo(_, _)
DigitsValUpTo(s, n) ==
    IF n = 0 THEN 0
    ELSE 10 * ByValue2(DigitsValUpTo, s, n - 1) + DigitVal(SubSeq(s, n, n))

\* the value of the digit string s (0 for the empty string)
DigitsVal(s) == ByValue(LAMBDA x : DigitsValUpTo(x, Len(x)), s)

NaN == [nan |-> TRUE, m |-> 0, e |-> 0]

(***************************************************************************)
(* parseFloat on decimal literals: leading white space is skipped, then    *)
(* the longest prefix [+-] digits* [. digits*] with at least one digit is  *)
(* read and the rest of the string ignored; NaN without a digit.  The      *)
(* alphabets of the model hold no exponent marker and no "Infinity".       *)
(***************************************************************************)
\* the number read from s, whose digits start at position i1 with a run of
\* n1 digits, followed by n2 digits after a point
FloatOf(s, i1, n1, n2) ==
    IF n1 + n2 = 0 THEN NaN
    ELSE ByValue(LAMBDA v : [nan |-> FALSE, m |-> v.m, e |-> v.e],
                 Norm((IF SubSeq(s, 1, 1) = "-" THEN 0 - 1 ELSE 1)
                      * DigitsVal(SubSeq(s, i1, i1 + n1 - 1)
                                  \o SubSeq(s, i1 + n1 + 1, i1 + n1 + n2)),
                      n2))

FloatFrom(s, i1) ==
    ByValue(LAMBDA n1 :
                ByValue(LAMBDA n2 : FloatOf(s, i1, n1, n2),
                        IF Ch(s, i1 + n1) = "." THEN DigitRun(s, i1 + n1 + 1)
                        ELSE 0),
            DigitRun(s, i1))

parseFloat(str) ==
    ByValue(LAMBDA s : ByValue2(FloatFrom, s,
                                IF Ch(s, 1) \in {"-", "+"} THEN 2 ELSE 1),
            TrimStart(str))

(***************************************************************************)
(* validation/amount.ts                                                    *)
(***************************************************************************)
AmountParseError(amountString) ==
    [ok |-> FALSE, name |-> "AmountParseError",
     message |-> "Invalid amount format: \"" \o amountString \o "\"",
     value |-> NumZero]

AmountValidationError(message) ==
    [ok |-> FALSE, name |-> "AmountValidationError",
     message |-> "Amount validation error: " \o message,
     value |-> NumZero]

\* variant of parseAmount that returns the parsed value with its sign
parseAmountKeepSign(amountString) ==
    ByValue(LAMBDA amount :
                IF amount.nan THEN AmountParseError(amountString)
                ELSE IF amount.m = 0
                THEN AmountValidationError("Amount cannot be zero")
                ELSE [ok |-> TRUE, name |-> "", message |-> "",
                      value |-> [m |-> amount.m, e |-> amount.e]],
            parseFloat(RemoveChars(Trim(amountString), {"$", ","})))

\* variant of parseAmount that reports a zero amount as a format error
parseAmountZeroAsFormat(amountString) ==
    ByValue(LAMBDA amount :
                IF amount.nan \/ amount.m = 0 THEN AmountParseError(amountString)
                ELSE [ok |-> TRUE, name |-> "", message |-> "",
                      value |-> IF amount.m > 0
                                THEN [m |-> 0 - amount.m, e |-> amount.e]
                                ELSE [m |-> amount.m, e |-> amount.e]],
            parseFloat(RemoveChars(Trim(amountString), {"$", ","})))

\* trimmed is amountString.trim(), cleaned is trimmed.replace(/[$,]/g, ''),
\* amount is parseFloat(cleaned)
parseAmount(amountString) ==
    ByValue(LAMBDA amount :
                IF amount.nan THEN AmountParseError(amountString)
                ELSE IF amount.m = 0
                THEN AmountValidationError("Amount cannot be zero")
                ELSE [ok |-> TRUE, name |-> "", message |-> "",
                      value |-> IF amount.m > 0
                                THEN [m |-> 0 - amount.m, e |-> amount.e]
                                ELSE [m |-> amount.m, e |-> amount.e]],
            parseFloat(RemoveChars(Trim(amountString), {"$", ","})))

\* Number.prototype.toFixed(2): the nearest multiple of 0.01, a tie taken to
\* the larger magnitude, computed on the decimal value (a binary double that
\* lies just below a decimal tie rounds down in JavaScript)
toFixed2(x) ==
    ByValue(LAMBDA n :
                (IF x.m < 0 THEN "-" ELSE "") \o ToString(n \div 100) \o "."
                \o (IF n % 100 < 10 THEN "0" ELSE "") \o ToString(n % 100),
            IF x.e <= 2 THEN NumAbs(x).m * Pow10(2 - x.e)
            ELSE (NumAbs(x).m + 5 * Pow10(x.e - 3)) \div Pow10(x.e - 2))

LARGE_CONTRIBUTION_THRESHOLD == 250

checkLargeContribution(amount) ==
    ByValue(LAMBDA absoluteAmount :
                IF NumGE(absoluteAmount, NumInt(LARGE_CONTRIBUTION_THRESHOLD))
                THEN [hasWarning |-> TRUE,
                      warning |-> "Donation of $" \o toFixed2(absoluteAmount)
                                  \o " exceeds $250 threshold - receipt required for tax deduction"]
                ELSE [hasWarning |-> FALSE, warning |-> ""],
            NumAbs(amount))

(***************************************************************************)
(* validation/date.ts.  A Date is [year, month, date] as getFullYear(),    *)
(* getMonth() (0-based) and getDate() return them.                         *)
(***************************************************************************)
IsLeap(y) == (y % 4 = 0 /\ y % 100 /= 0) \/ y % 400 = 0

\* the number of days of month m (0-based) of year y
DaysInMonth(y, m) ==
    IF m = 1 THEN (IF IsLeap(y) THEN 29 ELSE 28)
    ELSE IF m \in {3, 5, 8, 10} THEN 30 ELSE 31

\* day d of month m (0..11) of year y, d carried into the next or previous months
RECURSIVE RollDay(_, _, _)
RollDay(y, m, d) ==
    IF d < 1
    THEN ByValue2(LAMBDA py, pm : ByValue3(RollDay, py, pm, d + DaysInMonth(py, pm)),
                  IF m = 0 THEN y - 1 ELSE y, IF m = 0 THEN 11 ELSE m - 1)
    ELSE IF d > DaysInMonth(y, m)
    THEN ByValue3(RollDay, IF m = 11 THEN y + 1 ELSE y,
                  IF m = 11 THEN 0 ELSE m + 1, d - DaysInMonth(y, m))
    ELSE [year |-> y, month |-> m, date |-> d]

\* new Date(year, monthIndex, day): a year 0..99 means 1900 + year, and an
\* out-of-range month or day carries over
NewDate(year, monthIndex, day) ==
    ByValue3(RollDay,
             (IF year >= 0 /\ year <= 99 THEN 1900 + year ELSE year)
             + ((monthIndex - (monthIndex % 12)) \div 12),
             monthIndex % 12, day)

NoDate == [year |-> 0, month |-> 0, date |-> 0]

DateParseError(dateString) ==
    [ok |-> FALSE, name |-> "DateParseError",
     message |-> "Invalid date format: \"" \o dateString \o "\"",
     value |-> NoDate]

AllDigits(s) ==
    ByValue(LAMBDA x : \A i \in 1..Len(x) : SubSeq(x, i, i) \in Digits, s)

\* the groups of a string of n1 digits, "/", n2 digits, "/" and n3 digits
SlashGroups(s, n1, n2, n3) ==
    IF /\ n1 \in {1, 2} /\ Ch(s, n1 + 1) = "/"
       /\ n2 \in {1, 2} /\ Ch(s, n1 + n2 + 2) = "/"
       /\ n3 = 4 /\ Len(s) = n1 + n2 + 6
    THEN [matched |-> TRUE,
          month |-> DigitsVal(SubSeq(s, 1, n1)),
          day   |-> DigitsVal(SubSeq(s, n1 + 2, n1 + n2 + 1)),
          year  |-> DigitsVal(SubSeq(s, n1 + n2 + 3, n1 + n2 + 6))]
    ELSE [matched |-> FALSE, month |-> 0, day |-> 0, year |-> 0]

\* trimmed.match(/^(\d{1,2})\/(\d{1,2})\/(\d{4})$/): the three groups, or none
SlashMatch(s) ==
    ByValue(LAMBDA n1 :
                ByValue(LAMBDA n2 :
                            ByValue(LAMBDA n3 : SlashGroups(s, n1, n2, n3),
                                    DigitRun(s, n1 + n2 + 3)),
                        DigitRun(s, n1 + 2)),
            DigitRun(s, 1))

\* trimmed.match(/^(\d{4})-(\d{2})-(\d{2})$/)
DashMatch(s) ==
    IF /\ Len(s) = 10 /\ Ch(s, 5) = "-" /\ Ch(s, 8) = "-"
       /\ AllDigits(SubSeq(s, 1, 4)) /\ AllDigits(SubSeq(s, 6, 7))
       /\ AllDigits(SubSeq(s, 9, 10))
    THEN [matched |-> TRUE,
          month |-> DigitsVal(SubSeq(s, 6, 7)),
          day   |-> DigitsVal(SubSeq(s, 9, 10)),
          year  |-> DigitsVal(SubSeq(s, 1, 4))]
    ELSE [matched |-> FALSE, month |-> 0, day |-> 0, year |-> 0]

\* "Validate the date is real": the Date built from the groups reads back the same
DateIsReal(g) ==
    ByValue(LAMBDA date : /\ date.year = g.year
                          /\ date.month = g.month - 1
                          /\ date.date = g.day,
            NewDate(g.year, g.month - 1, g.day))

\* the branches of parseDate on the two matches of the trimmed string
DateOf(dateString, slashMatch, dashMatch) ==
    IF slashMatch.matched /\ DateIsReal(slashMatch)
    THEN [ok |-> TRUE, name |-> "", message |-> "",
          value |-> NewDate(slashMatch.year, slashMatch.month - 1, slashMatch.day)]
    ELSE IF dashMatch.matched /\ DateIsReal(dashMatch)
    THEN [ok |-> TRUE, name |-> "", message |-> "",
          value |-> NewDate(dashMatch.year, dashMatch.month - 1, dashMatch.day)]
    ELSE DateParseError(dateString)

parseDate(dateString) ==
    ByValue(LAMBDA trimmed :
                ByValue3(DateOf, dateString, SlashMatch(trimmed), DashMatch(trimmed)),
            Trim(dateString))

\* String(n).padStart(2, '0')
PadStart2(n) == IF n < 10 THEN "0" \o ToString(n) ELSE ToString(n)

formatDateForMessage(date) ==
    PadStart2(date.month + 1) \o "/" \o PadStart2(date.date) \o "/"
    \o ToString(date.year)

validateDateInTaxYear(date, taxYear) ==
    IF date.year = taxYear
    THEN [inRange |-> TRUE, warning |-> ""]
    ELSE [inRange |-> FALSE,
          warning |-> "Date " \o formatDateForMessage(date)
                      \o " is outside tax year " \o ToString(taxYear)]

(***************************************************************************)
(* csv/validator.ts                                                        *)
(***************************************************************************)
NoTransaction ==
    [date |-> NoDate, merchant |-> "", category |-> "", account |-> "",
     notes |-> "", amount |-> NumZero, lineNumber |-> 0]

\* !field || field.trim() === ''
IsBlank(field) == field = "" \/ Trim(field) = ""

\* the body of validateRow once the date and the amount have been parsed
RowResult(row, parsedDate, parsedAmount) ==
    LET line == " (line " \o ToString(row.lineNumber) \o ")"
        missing ==
            (IF IsBlank(row.date)
             THEN <<"Missing required field: Date" \o line>> ELSE <<>>)
            \o (IF IsBlank(row.merchant)
                THEN <<"Missing required field: Merchant" \o line>> ELSE <<>>)
            \o (IF IsBlank(row.amount)
                THEN <<"Missing required field: Amount" \o line>> ELSE <<>>)
    IN IF Len(missing) > 0
       THEN [valid |-> FALSE, hasTransaction |-> FALSE,
             transaction |-> NoTransaction, errors |-> missing]
       ELSE IF ~parsedDate.ok
       THEN [valid |-> FALSE, hasTransaction |-> FALSE,
             transaction |-> NoTransaction,
             errors |-> <<"Invalid date format: \"" \o row.date \o "\"" \o line>>]
       ELSE IF ~parsedAmount.ok
       THEN [valid |-> FALSE, hasTransaction |-> FALSE,
             transaction |-> NoTransaction,
             errors |-> IF Includes(parsedAmount.message, "zero")
                        THEN <<"Amount cannot be zero" \o line>>
                        ELSE <<"Invalid amount format: \"" \o row.amount
                               \o "\"" \o line>>]
       ELSE [valid |-> TRUE, hasTransaction |-> TRUE,
             transaction |->
                 [date |-> parsedDate.value,
                  merchant |-> Trim(row.merchant),
                  category |-> Trim(row.category),
                  account |-> Trim(row.account),
                  notes |-> Trim(row.notes),
                  amount |-> parsedAmount.value,
                  lineNumber |-> row.lineNumber],
             errors |-> <<>>]

\* variant of validateRow that reports the first missing field only
validateRowFirstMissing(row) ==
    ByValue(LAMBDA r : [r EXCEPT !.errors = IF Len(r.errors) > 1 THEN <<r.errors[1]>>
                                            ELSE r.errors],
            ByValue3(RowResult, row, parseDate(row.date), parseAmount(row.amount)))

validateRow(row) ==
    ByValue3(RowResult, row, parseDate(row.date), parseAmount(row.amount))

\* the concatenation of the sequences of list
RECURSIVE FlattenFrom(_, _)
FlattenFrom(list, i) ==
    IF i > Len(list) THEN <<>>
    ELSE list[i] \o ByValue2(FlattenFrom, list, i + 1)

Flatten(list) == ByValue2(FlattenFrom, list, 1)

\* the loop of validateRows over the rows' results: a valid row's transaction
\* is pushed, any other row's errors are
CollectResults(results) ==
    ByValue2(LAMBDA transactions, allErrors :
                 [valid |-> Len(allErrors) = 0,
                  transactions |-> transactions,
                  errors |-> allErrors],
             ArrayMap(LAMBDA r : r.transaction,
                      SelectSeq(results, LAMBDA r : r.valid /\ r.hasTransaction)),
             Flatten(ArrayMap(LAMBDA r : r.errors,
                              SelectSeq(results,
                                        LAMBDA r : ~(r.valid /\ r.hasTransaction)))))

\* variant of validateRows that stops at the first row with an error
validateRowsFailFast(rows) ==
    ByValue(LAMBDA results :
                ByValue(LAMBDA bad :
                            IF bad = {} THEN CollectResults(results)
                            ELSE [valid |-> FALSE, transactions |-> <<>>,
                                  errors |-> results[SetMin(bad)].errors],
                        {i \in 1..Len(results) : ~results[i].valid}),
            ArrayMap(validateRow, rows))

\* variant of validateRows that passes the rows without an error on and
\* leaves the others out
validateRowsSkipInvalid(rows) ==
    ByValue(LAMBDA r : [r EXCEPT !.valid = TRUE, !.errors = <<>>],
            ByValue(CollectResults, ArrayMap(validateRow, rows)))

validateRows(rows) == ByValue(CollectResults, ArrayMap(validateRow, rows))

(***************************************************************************)
(* merchant/lookup.ts.  A mapping is [merchant, organization, hasEin,      *)
(* ein]; undefined is [found |-> FALSE].                                    *)
(***************************************************************************)
NoMapping == [merchant |-> "", organization |-> "", hasEin |-> FALSE, ein |-> ""]

NotFound == [found |-> FALSE, mapping |-> NoMapping]

\* the first mapping whose lower-cased merchant is normalizedName
FirstMatch(normalizedName, mappings) ==
    ByValue(LAMBDA hits : IF hits = {} THEN NotFound
                          ELSE [found |-> TRUE, mapping |-> mappings[SetMin(hits)]],
            {i \in 1..Len(mappings) :
                toLowerCase(mappings[i].merchant) = normalizedName})

\* variant of lookupMerchant that takes a payee the name starts with as a match
lookupMerchantByPrefix(merchantName, cfg) ==
    ByValue2(LAMBDA normalizedName, mappings :
                 ByValue(LAMBDA hits :
                             IF hits = {} THEN NotFound
                             ELSE [found |-> TRUE, mapping |-> mappings[SetMin(hits)]],
                         {i \in 1..Len(mappings) :
                             /\ Len(mappings[i].merchant) <= Len(normalizedName)
                             /\ toLowerCase(mappings[i].merchant)
                                  = SubSeq(normalizedName, 1, Len(mappings[i].merchant))}),
             toLowerCase(Trim(merchantName)), cfg.mappings)

lookupMerchant(merchantName, cfg) ==
    ByValue2(FirstMatch, toLowerCase(Trim(merchantName)), cfg.mappings)

\* variant of createMerchantLookupMap whose keys keep the configured casing
createCaseSensitiveLookupMap(cfg) ==
    ByValue(LAMBDA keys :
                [key \in {keys[i] : i \in 1..Len(keys)} |->
                    cfg.mappings[SetMin({i \in 1..Len(keys) : keys[i] = key})]]
                @@ <<>>,
            ArrayMap(LAMBDA m : m.merchant, cfg.mappings))

\* variant of createMerchantLookupMap in which a later mapping replaces an
\* earlier one with the same key
createLastWinsLookupMap(cfg) ==
    ByValue(LAMBDA keys :
                [key \in {keys[i] : i \in 1..Len(keys)} |->
                    cfg.mappings[SetMax({i \in 1..Len(keys) : keys[i] = key})]]
                @@ <<>>,
            ArrayMap(LAMBDA m : toLowerCase(m.merchant), cfg.mappings))

\* the Map is a function from its keys; a key is set once, by the first
\* mapping that has it
createMerchantLookupMap(cfg) ==
    ByValue(LAMBDA keys :
                [key \in {keys[i] : i \in 1..Len(keys)} |->
                    cfg.mappings[SetMin({i \in 1..Len(keys) : keys[i] = key})]]
                @@ <<>>,
            ArrayMap(LAMBDA m : toLowerCase(m.merchant), cfg.mappings))

\* Map.prototype.get
MapGet(map, key) ==
    ByValue2(LAMBDA m, k : IF k \in DOMAIN m THEN [found |-> TRUE, mapping |-> m[k]]
                           ELSE NotFound,
             map, key)

lookupMerchantFast(merchantName, lookupMap) ==
    MapGet(lookupMap, toLowerCase(Trim(merchantName)))

(***************************************************************************)
(* merchant/extractor.ts                                                   *)
(***************************************************************************)
\* the collation rank of a character: white space and punctuation, then
\* digits, then letters (upper and lower case together)
CollationOrder == " -,.&#0123456789abcdefghijklmnopqrstuvwxyz"

CharRank(c) ==
    ByValue(LAMBDA at : IF at = {} THEN Len(CollationOrder) + 1 ELSE SetMin(at),
            {i \in 1..Len(CollationOrder) :
                SubSeq(CollationOrder, i, i) = LowerChar(c)})

\* a.localeCompare(b) < 0
RECURSIVE LocaleLessFrom(_, _, _)
LocaleLessFrom(a, b, i) ==
    IF i > Len(b) THEN FALSE
    ELSE IF i > Len(a) THEN TRUE
    ELSE ByValue2(LAMBDA ra, rb : IF ra /= rb THEN ra < rb
                                  ELSE ByValue3(LocaleLessFrom, a, b, i + 1),
                  CharRank(SubSeq(a, i, i)), CharRank(SubSeq(b, i, i)))

LocaleLess(a, b) == ByValue3(LocaleLessFrom, a, b, 1)

\* variant of FirstSeen that keeps, for each key, the payee of the last row
LastSeen(trimmed, lower) ==
    ArrayMap(LAMBDA i : trimmed[i],
             SelectSeq(Indices(Len(trimmed)),
                       LAMBDA i : \A j \in (i + 1)..Len(trimmed) : lower[j] /= lower[i]))

\* the trimmed payees whose lower-cased key no earlier payee has
FirstSeen(trimmed, lower) ==
    ArrayMap(LAMBDA i : trimmed[i],
             SelectSeq(Indices(Len(trimmed)),
                       LAMBDA i : \A j \in 1..(i - 1) : lower[j] /= lower[i]))

\* Array.from(seen.values()): for each lower-cased key the trimmed payee of
\* the first row that carries it, in the order the keys were first seen
SeenValues(rows) ==
    ByValue(LAMBDA trimmed : ByValue2(FirstSeen, trimmed, ArrayMap(toLowerCase, trimmed)),
            ArrayMap(LAMBDA row : Trim(row.merchant), rows))

\* the comparator (a, b) => a.toLowerCase().localeCompare(b.toLowerCase())
MerchantBefore(a, b) == LocaleLess(toLowerCase(a), toLowerCase(b))

extractUniqueMerchants(rows) == SortSeq(SeenValues(rows), MerchantBefore)

(***************************************************************************)
(* validation/preflight.ts                                                 *)
(***************************************************************************)
\* whether the loop of validateAllMerchantsMapped pushes merchant
\* variant of IsUnmapped that lets a blank name pass
IsUnmappedAndNamed(merchant, cfg) ==
    merchant /= "" /\ ~lookupMerchant(merchant, cfg).found

IsUnmapped(merchant, cfg) == ~lookupMerchant(merchant, cfg).found

\* variant of validateAllMerchantsMapped that reports the first unmapped name only
validateFirstUnmapped(merchants, cfg) ==
    ByValue(LAMBDA unmapped : [valid |-> Len(unmapped) = 0,
                               unmappedMerchants |->
                                   IF Len(unmapped) = 0 THEN <<>>
                                   ELSE <<unmapped[1]>>],
            SelectSeq(merchants, LAMBDA m : IsUnmapped(m, cfg)))

validateAllMerchantsMapped(merchants, cfg) ==
    ByValue(LAMBDA unmapped : [valid |-> Len(unmapped) = 0,
                               unmappedMerchants |-> unmapped],
            SelectSeq(merchants, LAMBDA m : IsUnmapped(m, cfg)))

(***************************************************************************)
(* config/loader.ts and config/validator.ts.  A configuration file is      *)
(* [read, yaml, mappings]: how readFile ends ("ok", "ENOENT", "EACCES"),   *)
(* what parseYaml makes of the content ("ok", "syntax", "notObject",       *)
(* "noMappings", "badMapping") and the entries of its mappings array.      *)
(***************************************************************************)
NoConfig == [mappings |-> <<>>]

Threw(name, message) ==
    [ok |-> FALSE, name |-> name, message |-> message, config |-> NoConfig]

loadConfig(file) ==
    IF file.read = "ENOENT"
    THEN Threw("ConfigNotFoundError", "Configuration file not found: " \o file.path)
    ELSE IF file.read /= "ok"
    THEN Threw("Error", file.read \o ": permission denied, open '" \o file.path \o "'")
    ELSE IF file.yaml = "syntax"
    THEN Threw("ConfigParseError",
               "Failed to parse configuration file: Implicit map keys need to be followed by map values")
    ELSE IF file.yaml = "notObject"
    THEN Threw("ConfigParseError",
               "Failed to parse configuration file: Config must be a valid YAML object")
    ELSE IF file.yaml = "noMappings"
    THEN Threw("ConfigParseError",
               "Failed to parse configuration file: Config must contain a \"mappings\" array")
    ELSE IF file.yaml = "badMapping"
    THEN Threw("ConfigParseError",
               "Failed to parse configuration file: Each mapping must be an object")
    ELSE [ok |-> TRUE, name |-> "", message |-> "",
          config |-> [mappings |-> file.mappings]]

ConfigValidationError(message) ==
    [ok |-> FALSE, message |-> "Configuration validation error: " \o message,
     warnings |-> <<>>]

\* the warnings of the duplicate loop of validateConfig, lower holding the
\* lower-cased merchants: one for each mapping whose key was seen before
DuplicateWarnings(mappings, lower) ==
    ArrayMap(LAMBDA i : "Duplicate merchant: \"" \o mappings[i].merchant
                        \o "\" (matches \""
                        \o mappings[SetMin({k \in 1..(i - 1) :
                                               lower[k] = lower[i]})].merchant
                        \o "\")",
             SelectSeq(Indices(Len(mappings)),
                       LAMBDA i : \E k \in 1..(i - 1) : lower[k] = lower[i]))

\* the mappings with an empty merchant or organization
BlankMappings(mappings) ==
    {i \in 1..Len(mappings) : IsBlank(mappings[i].merchant)
                              \/ IsBlank(mappings[i].organization)}

validateConfig(cfg) ==
    IF Len(cfg.mappings) = 0
    THEN ConfigValidationError("Config \"mappings\" array cannot be empty")
    ELSE ByValue(LAMBDA bad :
                     IF bad /= {}
                     THEN ConfigValidationError(
                              "Mapping at index " \o ToString(SetMin(bad) - 1)
                              \o (IF IsBlank(cfg.mappings[SetMin(bad)].merchant)
                                  THEN " has empty or missing \"merchant\" field"
                                  ELSE " has empty or missing \"organization\" field"))
                     ELSE [ok |-> TRUE, message |-> "",
                           warnings |->
                               ByValue2(DuplicateWarnings, cfg.mappings,
                                        ArrayMap(LAMBDA m : toLowerCase(m.merchant),
                                                 cfg.mappings))],
                 BlankMappings(cfg.mappings))

(***************************************************************************)
(* csv/parser.ts.  A CSV file is [read, parse, records]: how readFile      *)
(* ends, whether csv-parse accepts the content, and the records it         *)
(* returns (blank lines skipped), each a sequence of fields.               *)
(***************************************************************************)
EXPECTED_HEADERS ==
    <<"Date", "Merchant", "Category", "Account", "Original Statement",
      "Notes", "Amount", "Tags", "Owner">>

CsvParseError(message) ==
    [ok |-> FALSE, name |-> "CsvParseError",
     message |-> "CSV parse error: " \o message, rows |-> <<>>]

\* record[k]?.trim() ?? ''
Field(record, k) == IF k <= Len(record) THEN Trim(record[k]) ELSE ""

\* the CsvRow of the record at index i of the data records
RowOf(record, i) ==
    [date |-> Field(record, 1),
     merchant |-> Field(record, 2),
     category |-> Field(record, 3),
     account |-> Field(record, 4),
     originalStatement |-> Field(record, 5),
     notes |-> Field(record, 6),
     amount |-> Field(record, 7),
     tags |-> Field(record, 8),
     owner |-> Field(record, 9),
     lineNumber |-> i + 1]

hasValidHeaders(headers) ==
    \A k \in 1..Len(EXPECTED_HEADERS) :
        k <= Len(headers) /\ Trim(headers[k]) = EXPECTED_HEADERS[k]

\* parse(content, {relaxColumnCount: true, skipEmptyLines: true}): the records
\* of the file in order, its empty lines left out
parse(content) == SelectSeq(content, LAMBDA line : line /= <<>>)

\* the rest of parseCSV once the content was read and parsed
RowsOf(records) ==
    IF Len(records) = 0
    THEN CsvParseError("CSV file is empty")
    ELSE IF ~hasValidHeaders(records[1])
    THEN CsvParseError("Invalid CSV headers. Expected: Date, Merchant, Category, Account, Original Statement, Notes, Amount, Tags, Owner")
    ELSE [ok |-> TRUE, name |-> "", message |-> "",
          rows |-> ArrayMap(LAMBDA i : RowOf(records[i + 1], i),
                            Indices(Len(records) - 1))]

parseCSV(file) ==
    IF file.read /= "ok"
    THEN CsvParseError("Failed to read CSV file: " \o file.read
                       \o ": no such file or directory, open '" \o file.path \o "'")
    ELSE IF file.parse /= "ok"
    THEN CsvParseError("Failed to parse CSV: " \o file.parse)
    ELSE ByValue(RowsOf, parse(file.records))

(***************************************************************************)
(* validation/duplicates.ts                                                *)
(***************************************************************************)
\* n digits of v, zero-padded on the left
RECURSIVE PadDigits(_, _)
PadDigits(v, n) ==
    IF n = 0 THEN "" ELSE ByValue2(PadDigits, v \div 10, n - 1) \o ToString(v % 10)

\* String(x) of a number
NumToString(x) ==
    (IF x.m < 0 THEN "-" ELSE "") \o ToString(NumAbs(x).m \div Pow10(x.e))
    \o (IF x.e > 0 THEN "." \o ByValue2(PadDigits, NumAbs(x).m % Pow10(x.e), x.e)
        ELSE "")

\* date.toISOString().split('T')[0], the process running at UTC
toISODate(date) ==
    ByValue2(PadDigits, date.year, 4) \o "-" \o PadStart2(date.month + 1) \o "-"
    \o PadStart2(date.date)

\* variant of DuplicateKey that leaves the amount out
DuplicateKeyWithoutAmount(transaction) ==
    toISODate(transaction.date) \o "|" \o transaction.organization

DuplicateKey(transaction) ==
    toISODate(transaction.date) \o "|" \o transaction.organization \o "|"
    \o NumToString(transaction.amount)

NumBefore(a, b) == a < b

\* the DuplicateGroup pushed for a group of the Map
DuplicateGroup(members) ==
    [date |-> members[1].date,
     organization |-> members[1].organization,
     amount |-> members[1].amount,
     lineNumbers |-> SortSeq(ArrayMap(LAMBDA t : t.lineNumber, members), NumBefore)]

\* the transactions the groups Map holds under the key keys[i]
GroupAt(transactions, keys, i) ==
    ArrayMap(LAMBDA j : transactions[j],
             SelectSeq(Indices(Len(keys)), LAMBDA j : keys[j] = keys[i]))

\* groups.values() is in the order the keys were first set: a group is
\* pushed if it holds more than one transaction
DuplicateGroups(transactions, keys) ==
    ArrayMap(LAMBDA i : DuplicateGroup(GroupAt(transactions, keys, i)),
             SelectSeq(Indices(Len(keys)),
                       LAMBDA i : /\ \A j \in 1..(i - 1) : keys[j] /= keys[i]
                                  /\ \E j \in (i + 1)..Len(keys) : keys[j] = keys[i]))

findDuplicates(transactions) ==
    ByValue2(DuplicateGroups, transactions, ArrayMap(DuplicateKey, transactions))

(***************************************************************************)
(* txf/formatter.ts and txf/generator.ts                                   *)
(***************************************************************************)
CRLF == "\r\n"

TXF_VERSION == "V042"

REFNUM_CASH_CHARITY == 280

MAX_ORGANIZATION_LENGTH == 64

formatDate(date) ==
    PadStart2(date.month + 1) \o "/" \o PadStart2(date.date) \o "/"
    \o ToString(date.year)

formatAmount(amount) == toFixed2(amount)

\* variant of formatDetailLine that keeps the whole organization name
formatDetailLineUntruncated(params) ==
    formatDate(params.date) \o " " \o params.account \o " " \o params.organization
    \o (IF params.hasEin /\ params.ein /= "" THEN " EIN:" \o params.ein ELSE "")

formatDetailLine(params) ==
    formatDate(params.date) \o " " \o params.account \o " "
    \o (IF Len(params.organization) > MAX_ORGANIZATION_LENGTH
        THEN SubSeq(params.organization, 1, MAX_ORGANIZATION_LENGTH)
        ELSE params.organization)
    \o (IF params.hasEin /\ params.ein /= "" THEN " EIN:" \o params.ein ELSE "")

\* lines[i..], each followed by CRLF
RECURSIVE JoinFrom(_, _)
JoinFrom(lines, i) ==
    IF i > Len(lines) THEN ""
    ELSE lines[i] \o CRLF \o ByValue2(JoinFrom, lines, i + 1)

\* lines.join(CRLF) + CRLF
JoinCRLF(lines) ==
    ByValue(LAMBDA l : IF Len(l) = 0 THEN CRLF ELSE JoinFrom(l, 1), lines)

generateHeader(genOptions) ==
    JoinCRLF(<<TXF_VERSION,
               "Acsv-to-txf " \o (IF genOptions.appVersion = "" THEN "1.0.0"
                                  ELSE genOptions.appVersion),
               "D" \o formatDate(genOptions.date)>>)

generateRecord(transaction) ==
    JoinCRLF(<<"TD",
               "N" \o ToString(REFNUM_CASH_CHARITY),
               "C1",
               "L1",
               "$" \o formatAmount(transaction.amount),
               "X" \o formatDetailLine(transaction),
               "^">>)

\* the concatenation of the strings of list
RECURSIVE ConcatFrom(_, _)
ConcatFrom(list, i) ==
    IF i > Len(list) THEN "" ELSE list[i] \o ByValue2(ConcatFrom, list, i + 1)

Concat(list) == ByValue2(ConcatFrom, list, 1)

generateTxf(transactions, genOptions) ==
    generateHeader(genOptions) \o Concat(ArrayMap(generateRecord, transactions))

(***************************************************************************)
(* The files and options a run of convert() may meet.                      *)
(***************************************************************************)
RedCross ==
    [merchant |-> "RED CROSS", organization |-> "American National Red Cross",
     hasEin |-> TRUE, ein |-> "53-0196605"]

UnitedWay ==
    [merchant |-> "UNITED WAY", organization |-> "United Way Worldwide",
     hasEin |-> FALSE, ein |-> ""]

RedCrossAgain ==
    [merchant |-> "Red Cross", organization |-> "Second Org",
     hasEin |-> FALSE, ein |-> ""]

NoOrganization ==
    [merchant |-> "GOODWILL", organization |-> " ", hasEin |-> FALSE, ein |-> ""]

\* a mapping whose payee was written with surrounding blanks
PaddedRedCross ==
    [merchant |-> " Red Cross ", organization |-> "Padded Org",
     hasEin |-> FALSE, ein |-> ""]

ConfigFile(read, yaml, mappings) ==
    [path |-> "/home/user/mappings.yaml", read |-> read, yaml |-> yaml,
     mappings |-> mappings]

ConfigFiles ==
    {ConfigFile("ENOENT", "ok", <<>>),
     ConfigFile("EACCES", "ok", <<>>),
     ConfigFile("ok", "syntax", <<>>),
     ConfigFile("ok", "notObject", <<>>),
     ConfigFile("ok", "ok", <<>>),
     ConfigFile("ok", "ok", <<RedCross, NoOrganization>>),
     ConfigFile("ok", "ok", <<RedCross, UnitedWay>>),
     ConfigFile("ok", "ok", <<PaddedRedCross, UnitedWay>>),
     ConfigFile("ok", "ok", <<RedCross, RedCrossAgain, UnitedWay>>)}

Record(date, merchant, category, amount) ==
    <<date, merchant, category, "Chase Checking", "STATEMENT", "Annual donation",
      amount, "tax", "John">>

\* the data records a CSV file is made of; the last one comes from a line
\* whose account field is quoted and holds a line break
RecordUniverse ==
    {Record("01/15/2026", "RED CROSS", "Donations", "-100.00"),
     Record(" 2026-01-15 ", " red cross ", "donations", "$100.00"),
     Record("12/31/2025", "UNITED WAY", "Donations", "1,250"),
     Record("01/15/2026", "RED CROSS", "Donations", "0.00"),
     Record("02/30/2026", "RED CROSS", "Donations", "-100.00"),
     Record("02/30/2026", "United Way", "Donations", "-0"),
     <<"", "RED CROSS", "Donations">>,
     Record("01/15/2026", "UNKNOWN CHARITY", "Donations", "-100.00"),
     Record("1/5/2026", "Another Unknown", "Groceries", "abc"),
     Record("1/5/2026", "RED CROSS", "Donations", "zero dollars"),
     Record("01/15/2026", "", "Donations", "-100.00"),
     Record("01/15/2026", "UNITED WAY", "Groceries", "-0.5"),
     Record("01/15/2026", " ", "Groceries", "-5"),
     <<"01/16/2026", "UNITED WAY", "Donations", "Credit\nAgricole",
       "STATEMENT", "", "-20.00", "tax", "John">>}

RECURSIVE SeqsUpTo(_, _)
SeqsUpTo(S, n) ==
    IF n = 0 THEN {<<>>}
    ELSE LET shorter == SeqsUpTo(S, n - 1)
         IN shorter \cup {Append(q, x) : q \in shorter, x \in S}

\* a CSV file: how reading it and parsing it end, and what it holds line after
\* line, the fields of a record or <<>> for an empty line
CsvFile(read, parsing, records) ==
    [path |-> "/home/user/donations.csv", read |-> read, parse |-> parsing,
     records |-> records]

BadHeaders ==
    <<"Date", "Payee", "Category", "Account", "Original Statement", "Notes",
      "Amount", "Tags", "Owner">>

CsvFiles ==
    {CsvFile("ENOENT", "ok", <<>>),
     CsvFile("ok", "Invalid Closing Quote", <<>>),
     CsvFile("ok", "ok", <<>>),
     CsvFile("ok", "ok", <<BadHeaders>>),
     CsvFile("ok", "ok", <<EXPECTED_HEADERS, <<>>,
                           Record("01/15/2026", "RED CROSS", "Donations", "-100.00")>>),
     CsvFile("ok", "ok", <<EXPECTED_HEADERS,
                           Record("12/31/2025", "UNITED WAY", "Donations", "1,250"),
                           <<>>, <<>>,
                           Record("02/30/2026", "RED CROSS", "Donations", "-100.00")>>)}
    \cup {CsvFile("ok", "ok", <<EXPECTED_HEADERS>> \o q) :
            q \in SeqsUpTo(RecordUniverse, MaxRows)}

\* new Date() when the output is generated
Today == [year |-> 2026, month |-> 10, date |-> 1]

OptionsSet ==
    {[category |-> c, dryRun |-> d, taxYear |-> 2026] :
        c \in {"", "Donations"}, d \in BOOLEAN}

PreviousFile == [content |-> "previous content"]

\* before convert() has read a file
NoFilesRead ==
    [config |-> ConfigFile("unread", "", <<>>), csv |-> CsvFile("unread", "", <<>>)]

(***************************************************************************)
(* cli/convert.ts: convert(), one action per stage.                        *)
(***************************************************************************)
StageOrder ==
    <<"loadConfig", "validateConfig", "parseCSV", "filter", "emptyCheck",
      "preflight", "validateRows", "resolve", "findDuplicates", "generateTxf",
      "writeFile", "return">>

\* variant of ExitCode with one code for each failing stage
DistinctExitCode(stage) ==
    CASE stage = "loadConfig"     -> 2
      [] stage = "validateConfig" -> 1
      [] stage = "parseCSV"       -> 4
      [] stage = "emptyCheck"     -> 0
      [] stage = "preflight"      -> 3
      [] stage = "validateRows"   -> 5
      [] stage = "writeFile"      -> 6
      [] stage = "return"         -> 0

\* the exitCode of the return statement that ends a run at stage
ExitCode(stage) ==
    CASE stage = "loadConfig"     -> 2
      [] stage = "validateConfig" -> 1
      [] stage = "parseCSV"       -> 2
      [] stage = "emptyCheck"     -> 0
      [] stage = "preflight"      -> 3
      [] stage = "validateRows"   -> 1
      [] stage = "writeFile"      -> 2
      [] stage = "return"         -> 0

NoResult ==
    [returned |-> FALSE, success |-> FALSE, exitCode |-> 0,
     transactionsProcessed |-> 0, totalAmount |-> NumZero,
     uniqueOrganizations |-> 0]

\* the object every failing return statement builds
Failure(stage) ==
    [returned |-> TRUE, success |-> FALSE, exitCode |-> ExitCode(stage),
     transactionsProcessed |-> 0, totalAmount |-> NumZero,
     uniqueOrganizations |-> 0]

\* what the return after a failed writeFile reports
WriteFailure(transactions) == Failure("writeFile")

\* the sum of the amounts of the first n transactions, added in order
RECURSIVE SumUpTo(_, _)
SumUpTo(transactions, n) ==
    IF n = 0 THEN NumZero
    ELSE NumAdd(ByValue2(SumUpTo, transactions, n - 1), transactions[n].amount)

\* resolvedTransactions.reduce((sum, tx) => sum + tx.amount, 0)
SumAmounts(transactions) == ByValue2(SumUpTo, transactions, Len(transactions))

\* new Set(resolvedTransactions.map(tx => tx.organization)).size
UniqueOrgs(transactions) ==
    Cardinality({transactions[i].organization : i \in 1..Len(transactions)})

Init ==
    /\ pc = "loadConfig"
    /\ options \in OptionsSet
    /\ config = NoConfig
    /\ csvRows = <<>>
    /\ merchantCheck = [valid |-> TRUE, unmappedMerchants |-> <<>>]
    /\ rowValidation = [valid |-> TRUE, transactions |-> <<>>, errors |-> <<>>]
    /\ resolvedTransactions = <<>>
    /\ txfContent = ""
    /\ warnings = <<>>
    /\ errors = <<>>
    /\ result = NoResult
    /\ trace = <<>>
    /\ outputFile = PreviousFile
    /\ filesRead = NoFilesRead
    /\ call = [fn |-> "none"]

\* variant of Fail after which the run goes on to its last stage
FailAndContinue(stage, pushed) ==
    /\ errors' = errors \o pushed
    /\ result' = Failure(stage)
    /\ pc' = "return"

\* the return of a failing stage: the errors pushed, then the failure object
Fail(stage, pushed) ==
    /\ errors' = errors \o pushed
    /\ result' = Failure(stage)
    /\ pc' = "done"

LoadConfig ==
    /\ pc = "loadConfig"
    /\ trace' = Append(trace, "loadConfig")
    /\ \E file \in ConfigFiles :
          /\ filesRead' = [filesRead EXCEPT !.config = file]
          /\ \E r \in {loadConfig(file)} :
                IF r.ok
                THEN /\ config' = r.config
                     /\ pc' = "validateConfig"
                     /\ UNCHANGED <<errors, result>>
                ELSE /\ Fail("loadConfig", <<r.message>>)
                     /\ UNCHANGED config
    /\ UNCHANGED <<options, csvRows, merchantCheck, rowValidation,
                   resolvedTransactions, txfContent, warnings, outputFile, call>>

ValidateConfig ==
    /\ pc = "validateConfig"
    /\ trace' = Append(trace, "validateConfig")
    /\ \E r \in {validateConfig(config)} :
          IF r.ok
          THEN /\ warnings' = warnings \o r.warnings
               /\ pc' = "parseCSV"
               /\ UNCHANGED <<errors, result>>
          ELSE /\ Fail("validateConfig", <<r.message>>)
               /\ UNCHANGED warnings
    /\ UNCHANGED <<options, config, csvRows, merchantCheck, rowValidation,
                   resolvedTransactions, txfContent, outputFile, filesRead, call>>

ParseCSV ==
    /\ pc = "parseCSV"
    /\ trace' = Append(trace, "parseCSV")
    /\ \E file \in CsvFiles :
          /\ filesRead' = [filesRead EXCEPT !.csv = file]
          /\ \E r \in {parseCSV(file)} :
                IF r.ok
                THEN /\ csvRows' = r.rows
                     /\ pc' = "filter"
                     /\ UNCHANGED <<errors, result>>
                ELSE /\ Fail("parseCSV", <<r.message>>)
                     /\ UNCHANGED csvRows
    /\ UNCHANGED <<options, config, merchantCheck, rowValidation,
                   resolvedTransactions, txfContent, warnings, outputFile, call>>

\* variant of FilterRows that keeps every row
KeepAllRows(rows, category) == rows

\* variant of FilterRows that compares the categories as they are written
FilterRowsCaseSensitive(rows, category) ==
    IF category /= ""
    THEN SelectSeq(rows, LAMBDA row : row.category = category)
    ELSE rows

\* csvRows.filter(row => row.category.toLowerCase() === category.toLowerCase())
FilterRows(rows, category) ==
    IF category /= ""
    THEN SelectSeq(rows, LAMBDA row :
                       toLowerCase(row.category) = toLowerCase(category))
    ELSE rows

FilterCategory ==
    /\ pc = "filter"
    /\ trace' = Append(trace, "filter")
    /\ csvRows' = FilterRows(csvRows, options.category)
    /\ pc' = "emptyCheck"
    /\ UNCHANGED <<options, config, merchantCheck, rowValidation,
                   resolvedTransactions, txfContent, warnings, errors, result,
                   outputFile, filesRead, call>>

EmptyCheck ==
    /\ pc = "emptyCheck"
    /\ trace' = Append(trace, "emptyCheck")
    /\ IF Len(csvRows) = 0
       THEN /\ result' = [returned |-> TRUE, success |-> TRUE,
                          exitCode |-> ExitCode("emptyCheck"),
                          transactionsProcessed |-> 0, totalAmount |-> NumZero,
                          uniqueOrganizations |-> 0]
            /\ pc' = "done"
       ELSE /\ pc' = "preflight"
            /\ UNCHANGED result
    /\ UNCHANGED <<options, config, csvRows, merchantCheck, rowValidation,
                   resolvedTransactions, txfContent, warnings, errors,
                   outputFile, filesRead, call>>

\* the errors pushed when the preflight check fails
UnmappedErrors(unmappedMerchants) ==
    <<"The following merchants are not mapped in the config:">>
    \o ArrayMap(LAMBDA merchant : "  - " \o merchant, unmappedMerchants)
    \o <<"", "Run \"csv-to-txf init <csv-file> --merge\" to add them to your config.">>

\* variant of PreflightStops that lets every run through
PreflightNeverStops(check) == FALSE

\* whether convert() returns after the preflight check
PreflightStops(check) == ~check.valid

Preflight ==
    /\ pc = "preflight"
    /\ trace' = Append(trace, "preflight")
    /\ \E check \in {validateAllMerchantsMapped(extractUniqueMerchants(csvRows),
                                                 config)} :
          /\ merchantCheck' = check
          /\ IF PreflightStops(check)
             THEN Fail("preflight", UnmappedErrors(check.unmappedMerchants))
             ELSE /\ pc' = "validateRows"
                  /\ UNCHANGED <<errors, result>>
    /\ UNCHANGED <<options, config, csvRows, rowValidation,
                   resolvedTransactions, txfContent, warnings, outputFile, filesRead, call>>

ValidateRows ==
    /\ pc = "validateRows"
    /\ trace' = Append(trace, "validateRows")
    /\ \E rv \in {validateRows(csvRows)} :
          /\ rowValidation' = rv
          /\ IF ~rv.valid
             THEN Fail("validateRows", rv.errors)
             ELSE /\ pc' = "resolve"
                  /\ UNCHANGED <<errors, result>>
    /\ UNCHANGED <<options, config, csvRows, merchantCheck,
                   resolvedTransactions, txfContent, warnings, outputFile, filesRead, call>>

\* the warnings the resolution loop pushes for one transaction
RowWarnings(tx, taxYear) ==
    ByValue2(LAMBDA dateCheck, largeCheck :
                 (IF ~dateCheck.inRange /\ dateCheck.warning /= ""
                  THEN <<"Line " \o ToString(tx.lineNumber) \o ": "
                         \o dateCheck.warning>>
                  ELSE <<>>)
                 \o (IF largeCheck.hasWarning /\ largeCheck.warning /= ""
                     THEN <<"Line " \o ToString(tx.lineNumber) \o ": "
                            \o largeCheck.warning>>
                     ELSE <<>>),
             validateDateInTaxYear(tx.date, taxYear),
             checkLargeContribution(tx.amount))

ResolveTransaction(tx, mapping) ==
    [date |-> tx.date, organization |-> mapping.organization,
     hasEin |-> mapping.hasEin, ein |-> mapping.ein, account |-> tx.account,
     amount |-> tx.amount, lineNumber |-> tx.lineNumber]

\* variant of ResolveAll that leaves out the transactions dated outside the
\* tax year
ResolveAllInTaxYear(transactions, lookupMap, taxYear) ==
    ByValue(LAMBDA kept :
                ByValue(LAMBDA got :
                            IF \E i \in 1..Len(got) : ~got[i].found
                            THEN [threw |-> TRUE, resolved |-> <<>>, warnings |-> <<>>]
                            ELSE [threw |-> FALSE,
                                  resolved |-> ArrayMap(LAMBDA i : ResolveTransaction(
                                                            kept[i], got[i].mapping),
                                                        Indices(Len(got))),
                                  warnings |-> Flatten(ArrayMap(
                                                  LAMBDA tx : RowWarnings(tx, taxYear),
                                                  transactions))],
                        ArrayMap(LAMBDA tx : MapGet(lookupMap, toLowerCase(tx.merchant)),
                                 kept)),
            SelectSeq(transactions, LAMBDA tx : tx.date.year = taxYear))

\* the resolution loop: reading .organization of a mapping the Map does not
\* hold throws a TypeError, which nothing in convert() catches
ResolveAll(transactions, lookupMap, taxYear) ==
    ByValue(LAMBDA got :
                IF \E i \in 1..Len(got) : ~got[i].found
                THEN [threw |-> TRUE, resolved |-> <<>>, warnings |-> <<>>]
                ELSE [threw |-> FALSE,
                      resolved |-> ArrayMap(LAMBDA i : ResolveTransaction(
                                                transactions[i], got[i].mapping),
                                            Indices(Len(got))),
                      warnings |-> Flatten(ArrayMap(LAMBDA tx : RowWarnings(tx, taxYear),
                                                    transactions))],
            ArrayMap(LAMBDA tx : MapGet(lookupMap, toLowerCase(tx.merchant)),
                     transactions))

Resolve ==
    /\ pc = "resolve"
    /\ trace' = Append(trace, "resolve")
    /\ \E r \in {ByValue3(ResolveAll, rowValidation.transactions,
                           createMerchantLookupMap(config), options.taxYear)} :
          /\ resolvedTransactions' = r.resolved
          /\ warnings' = warnings \o r.warnings
          /\ pc' = IF r.threw THEN "raised" ELSE "findDuplicates"
    /\ UNCHANGED <<options, config, csvRows, merchantCheck, rowValidation,
                   txfContent, errors, result, outputFile, filesRead, call>>

\* date.toLocaleDateString() in the en-US locale
toLocaleDateString(date) ==
    ToString(date.month + 1) \o "/" \o ToString(date.date) \o "/"
    \o ToString(date.year)

RECURSIVE JoinNumsFrom(_, _)
JoinNumsFrom(list, i) ==
    IF i > Len(list) THEN ""
    ELSE IF i = Len(list) THEN ToString(list[i])
    ELSE ToString(list[i]) \o ", " \o ByValue2(JoinNumsFrom, list, i + 1)

\* lineNumbers.join(', ')
JoinNums(list) == ByValue2(JoinNumsFrom, list, 1)

DuplicateWarning(dup) ==
    "Potential duplicate: " \o dup.organization \o " on "
    \o toLocaleDateString(dup.date) \o " for $" \o toFixed2(NumAbs(dup.amount))
    \o " (lines " \o JoinNums(dup.lineNumbers) \o ")"

FindDuplicates ==
    /\ pc = "findDuplicates"
    /\ trace' = Append(trace, "findDuplicates")
    /\ warnings' = warnings \o ArrayMap(DuplicateWarning,
                                        findDuplicates(resolvedTransactions))
    /\ pc' = "generateTxf"
    /\ UNCHANGED <<options, config, csvRows, merchantCheck, rowValidation,
                   resolvedTransactions, txfContent, errors, result,
                   outputFile, filesRead, call>>

GenerateTxf ==
    /\ pc = "generateTxf"
    /\ trace' = Append(trace, "generateTxf")
    /\ txfContent' = generateTxf(resolvedTransactions,
                                 [date |-> Today, appVersion |-> ""])
    /\ pc' = IF options.dryRun THEN "return" ELSE "writeFile"
    /\ UNCHANGED <<options, config, csvRows, merchantCheck, rowValidation,
                   resolvedTransactions, warnings, errors, result,
                   outputFile, filesRead, call>>

\* writeFile(outputPath, txfContent, 'ascii'): it completes, or it fails
\* before the file is opened for writing, or it fails after the file was
\* truncated and part of the content written. The 'ascii' encoding writes
\* the low byte of each character: a character up to U+00FF is written as
\* the byte of its own code, so the file holds the text's characters
WriteFile ==
    /\ pc = "writeFile"
    /\ trace' = Append(trace, "writeFile")
    /\ \/ /\ outputFile' = [content |-> txfContent]
          /\ pc' = "return"
          /\ UNCHANGED <<errors, result>>
       \/ /\ UNCHANGED outputFile
          /\ errors' = Append(errors,
                 "Failed to write output file: EACCES: permission denied, open 'donations.txf'")
          /\ result' = WriteFailure(resolvedTransactions)
          /\ pc' = "done"
       \/ /\ \E n \in {0, Len(txfContent) \div 2} :
                outputFile' = [content |-> SubSeq(txfContent, 1, n)]
          /\ errors' = Append(errors,
                 "Failed to write output file: ENOSPC: no space left on device, write")
          /\ result' = WriteFailure(resolvedTransactions)
          /\ pc' = "done"
    /\ UNCHANGED <<options, config, csvRows, merchantCheck, rowValidation,
                   resolvedTransactions, txfContent, warnings, filesRead, call>>

Return ==
    /\ pc = "return"
    /\ trace' = Append(trace, "return")
    /\ result' = [returned |-> TRUE, success |-> TRUE,
                  exitCode |-> ExitCode("return"),
                  transactionsProcessed |-> Len(resolvedTransactions),
                  totalAmount |-> SumAmounts(resolvedTransactions),
                  uniqueOrganizations |-> UniqueOrgs(resolvedTransactions)]
    /\ pc' = "done"
    /\ UNCHANGED <<options, config, csvRows, merchantCheck, rowValidation,
                   resolvedTransactions, txfContent, warnings, errors,
                   outputFile, filesRead, call>>

Next ==
    \/ LoadConfig
    \/ ValidateConfig
    \/ ParseCSV
    \/ FilterCategory
    \/ EmptyCheck
    \/ Preflight
    \/ ValidateRows
    \/ Resolve
    \/ FindDuplicates
    \/ GenerateTxf
    \/ WriteFile
    \/ Return

Spec == Init /\ [][Next]_vars

\* convert() is a single async function: once called, each stage it reaches runs
FairSpec == Spec /\ WF_vars(Next)

(***************************************************************************)
(* The exported pure functions, called on their own: a call is drawn with  *)
(* its argument, and the call step stores what the function returns.       *)
(***************************************************************************)
AmountAlphabet == {"0", "1", "5", "-", ".", "$", ",", "x", " "}

MerchantNames ==
    {"RED CROSS", " red cross ", "UNKNOWN CHARITY", "Another Unknown", ""}

MappingLists ==
    {<<RedCross, UnitedWay>>, <<RedCross, RedCrossAgain, UnitedWay>>, <<UnitedWay>>}

ParseAmountCalls ==
    {[fn |-> "parseAmount", arg |-> s, done |-> FALSE, ret |-> parseAmount("1")] :
        s \in StringsUpTo(AmountAlphabet, MaxAmountLen)}

PreflightCalls ==
    {[fn |-> "validateAllMerchantsMapped",
      arg |-> [merchants |-> q, config |-> [mappings |-> m]],
      done |-> FALSE,
      ret |-> [valid |-> TRUE, unmappedMerchants |-> <<>>]] :
        q \in SeqsUpTo(MerchantNames, MaxMerchants), m \in MappingLists}

\* the names and the configurations lookupMerchant is called on
LookupNames ==
    {"RED CROSS", "red cross", "Red Cross", "  RED CROSS  ", "RED CROSS INC",
     "RED", "CROSS", "UNITED WAY", " united way", "UNKNOWN CHARITY", "", " "}

LookupConfigs ==
    {<<>>, <<RedCross>>, <<UnitedWay, RedCross>>, <<RedCrossAgain, RedCross>>,
     <<RedCross, RedCrossAgain, UnitedWay>>, <<PaddedRedCross, UnitedWay>>,
     <<PaddedRedCross, RedCrossAgain>>}

LookupCalls ==
    {[fn |-> f, arg |-> [name |-> n, config |-> [mappings |-> m]],
      done |-> FALSE, ret |-> NotFound] :
        f \in {"lookupMerchant", "lookupMerchantFast"},
        n \in LookupNames, m \in LookupConfigs}

\* resolved transactions that differ from the first in the date, in the
\* organization, in the amount, and in all three
DuplicateCandidates ==
    {[date |-> [year |-> 2026, month |-> 0, date |-> d], organization |-> o,
      hasEin |-> FALSE, ein |-> "", account |-> "Chase Checking",
      amount |-> [m |-> a, e |-> 1], lineNumber |-> 0] :
        <<d, o, a>> \in {<<15, "American National Red Cross", 0 - 1005>>,
                         <<16, "American National Red Cross", 0 - 1005>>,
                         <<15, "United Way Worldwide", 0 - 1005>>,
                         <<15, "American National Red Cross", 0 - 1015>>,
                         <<16, "United Way Worldwide", 0 - 1015>>}}

\* the lists findDuplicates is called on: the line numbers go up from 2, or
\* down to 2
FindDuplicatesCalls ==
    {[fn |-> "findDuplicates",
      arg |-> [i \in 1..Len(q) |->
                  [q[i] EXCEPT !.lineNumber =
                       IF ascending THEN i + 1 ELSE Len(q) + 2 - i]] \o <<>>,
      done |-> FALSE, ret |-> <<>>] :
        q \in SeqsUpTo(DuplicateCandidates, MaxTransactions), ascending \in BOOLEAN}

\* the string of n characters c
RECURSIVE Repeat(_, _)
Repeat(c, n) == IF n = 0 THEN "" ELSE c \o Repeat(c, n - 1)

\* the transactions formatDetailLine is called on: an account that is empty
\* or holds the line break of a quoted CSV field, organization names of 27,
\* 64, 65 and 70 characters and one with letters outside ASCII, a tax ID that
\* is absent, empty or given
TxfTransactions ==
    {[date |-> d, account |-> a, organization |-> o, hasEin |-> e[1], ein |-> e[2],
      amount |-> [m |-> 0 - 12505, e |-> 1]] :
        d \in {[year |-> 2026, month |-> 0, date |-> 15],
               [year |-> 2025, month |-> 11, date |-> 31]},
        a \in {"Chase Checking", "", "Chase\nChecking"},
        o \in {"American National Red Cross", Repeat("A", 64), Repeat("B", 65),
               Repeat("C", 70), "Médecins Sans Frontières"},
        e \in {<<FALSE, "">>, <<TRUE, "">>, <<TRUE, "53-0196605">>}}

\* the transactions the lists generateTxf is called on are made of
TxfListed ==
    {t \in TxfTransactions :
        \/ t.account = "Chase Checking" /\ Len(t.organization) = 27
             /\ t.ein /= "" /\ t.date.year = 2026
        \/ t.account = "" /\ Len(t.organization) = 70
             /\ ~t.hasEin /\ t.date.year = 2025
        \/ t.account = "Chase\nChecking" /\ Len(t.organization) = 64
             /\ ~t.hasEin /\ t.date.year = 2026
        \/ t.account = "Chase Checking" /\ t.organization = "Médecins Sans Frontières"
             /\ ~t.hasEin /\ t.date.year = 2025}

\* the strings parseDate is called on: padded and unpadded slash dates, dash
\* dates, days that do not exist, years below 1000 and strings of no date
DateStrings ==
    {"01/15/2026", "1/5/2026", "12/31/2025", " 01/15/2026 ", "02/29/2024",
     "02/29/2025", "02/30/2026", "13/01/2026", "00/10/2026", "01/00/2026",
     "01/01/1000", "12/31/9999", "01/01/0999", "06/30/0100", "01/01/0099",
     "01/01/0000", "2026-01-15", "0999-01-01", "2026-1-5", "01-15-2026",
     "01/15/26", "01/15/999", "", "not a date"}

\* the rows validateRow is called on: each required field blank, made of
\* blanks, valid or invalid, the amount also below and at half a cent, at two
\* line numbers
ValidateRowCalls ==
    {[fn |-> "validateRow",
      arg |-> [date |-> d, merchant |-> m, category |-> "Donations",
               account |-> "Chase Checking", originalStatement |-> "STATEMENT",
               notes |-> "", amount |-> a, tags |-> "tax", owner |-> "John",
               lineNumber |-> n],
      done |-> FALSE,
      ret |-> [valid |-> FALSE, hasTransaction |-> FALSE,
               transaction |-> NoTransaction, errors |-> <<>>]] :
        d \in {"", " ", "01/15/2026", "02/30/2026"},
        m \in {"", "  ", "RED CROSS"},
        a \in {"", " ", "-100.00", "abc", "0.00", "0.001", "-$0.004", "0.005"},
        n \in {2, 7}}

\* the payees of the rows extractUniqueMerchants is called on
ExtractedPayees ==
    {"RED CROSS", "Red Cross", " red cross ", "UNITED WAY", "united way",
     "ALPHA ORG", "Zebra Charity", ""}

ExtractCalls ==
    {[fn |-> "extractUniqueMerchants",
      arg |-> ArrayMap(LAMBDA i : RowOf(Record("01/15/2026", q[i], "Donations", "-100.00"), i),
                       Indices(Len(q))),
      done |-> FALSE, ret |-> <<>>] :
        q \in SeqsUpTo(ExtractedPayees, MaxMerchants)}

ParseDateCalls ==
    {[fn |-> "parseDate", arg |-> s, done |-> FALSE, ret |-> DateParseError("")] :
        s \in DateStrings}

InitUnit ==
    /\ pc = "call"
    /\ options = [category |-> "", dryRun |-> TRUE, taxYear |-> 2026]
    /\ config = NoConfig
    /\ csvRows = <<>>
    /\ merchantCheck = [valid |-> TRUE, unmappedMerchants |-> <<>>]
    /\ rowValidation = [valid |-> TRUE, transactions |-> <<>>, errors |-> <<>>]
    /\ resolvedTransactions = <<>>
    /\ txfContent = ""
    /\ warnings = <<>>
    /\ errors = <<>>
    /\ result = NoResult
    /\ trace = <<>>
    /\ outputFile = PreviousFile
    /\ filesRead = NoFilesRead
    /\ \/ call \in ParseAmountCalls
       \/ call \in PreflightCalls
       \/ call \in LookupCalls
       \/ call \in FindDuplicatesCalls
       \/ call \in ParseDateCalls
       \/ call \in ExtractCalls
       \/ call \in ValidateRowCalls
       \/ call \in {[fn |-> "formatDetailLine", arg |-> t, done |-> FALSE, ret |-> ""] :
                       t \in TxfTransactions}
       \/ call \in {[fn |-> "generateTxf",
                      arg |-> [transactions |-> q,
                               options |-> [date |-> Today, appVersion |-> v]],
                      done |-> FALSE, ret |-> ""] :
                       q \in SeqsUpTo(TxfListed, MaxTransactions), v \in {"", "2.1.0"}}

CallParseAmount ==
    /\ call.fn = "parseAmount"
    /\ ~call.done
    /\ call' = [call EXCEPT !.done = TRUE, !.ret = parseAmount(call.arg)]
    /\ UNCHANGED pipelineVars

CallValidateAllMerchantsMapped ==
    /\ call.fn = "validateAllMerchantsMapped"
    /\ ~call.done
    /\ call' = [call EXCEPT !.done = TRUE,
                            !.ret = validateAllMerchantsMapped(call.arg.merchants,
                                                               call.arg.config)]
    /\ UNCHANGED pipelineVars

CallLookupMerchant ==
    /\ call.fn = "lookupMerchant"
    /\ ~call.done
    /\ call' = [call EXCEPT !.done = TRUE,
                            !.ret = lookupMerchant(call.arg.name, call.arg.config)]
    /\ UNCHANGED pipelineVars

CallLookupMerchantFast ==
    /\ call.fn = "lookupMerchantFast"
    /\ ~call.done
    /\ call' = [call EXCEPT !.done = TRUE,
                            !.ret = lookupMerchantFast(
                                        call.arg.name,
                                        createMerchantLookupMap(call.arg.config))]
    /\ UNCHANGED pipelineVars

CallFindDuplicates ==
    /\ call.fn = "findDuplicates"
    /\ ~call.done
    /\ call' = [call EXCEPT !.done = TRUE, !.ret = findDuplicates(call.arg)]
    /\ UNCHANGED pipelineVars

CallFormatDetailLine ==
    /\ call.fn = "formatDetailLine"
    /\ ~call.done
    /\ call' = [call EXCEPT !.done = TRUE, !.ret = formatDetailLine(call.arg)]
    /\ UNCHANGED pipelineVars

CallGenerateTxf ==
    /\ call.fn = "generateTxf"
    /\ ~call.done
    /\ call' = [call EXCEPT !.done = TRUE,
                            !.ret = generateTxf(call.arg.transactions,
                                                call.arg.options)]
    /\ UNCHANGED pipelineVars

CallValidateRow ==
    /\ call.fn = "validateRow"
    /\ ~call.done
    /\ call' = [call EXCEPT !.done = TRUE, !.ret = validateRow(call.arg)]
    /\ UNCHANGED pipelineVars

CallExtractUniqueMerchants ==
    /\ call.fn = "extractUniqueMerchants"
    /\ ~call.done
    /\ call' = [call EXCEPT !.done = TRUE, !.ret = extractUniqueMerchants(call.arg)]
    /\ UNCHANGED pipelineVars

CallParseDate ==
    /\ call.fn = "parseDate"
    /\ ~call.done
    /\ call' = [call EXCEPT !.done = TRUE, !.ret = parseDate(call.arg)]
    /\ UNCHANGED pipelineVars

NextUnit ==
    \/ CallParseAmount
    \/ CallValidateAllMerchantsMapped
    \/ CallLookupMerchant
    \/ CallLookupMerchantFast
    \/ CallFindDuplicates
    \/ CallParseDate
    \/ CallExtractUniqueMerchants
    \/ CallValidateRow
    \/ CallFormatDetailLine
    \/ CallGenerateTxf

UnitSpec == InitUnit /\ [][NextUnit]_vars

(***************************************************************************)
(* Properties of convert() and of the functions it calls.                  *)
(***************************************************************************)
Executed(stage) == \E i \in 1..Len(trace) : trace[i] = stage

Last(list) == list[Len(list)]

\* a row left by the category filter whose payee lookupMerchant does not find
HasUnmappedPayee ==
    \E i \in 1..Len(csvRows) : ~lookupMerchant(csvRows[i].merchant, config).found

\* C1: once the category filter has run and a payee of the remaining rows has
\* no mapping, validateRows, generateTxf and the file write are never
\* executed, the output file is untouched, and the run ends, with exitCode 3.
C1_UnmappedGate ==
    /\ [](Executed("filter") /\ HasUnmappedPayee
            => /\ ~Executed("validateRows")
               /\ ~Executed("generateTxf")
               /\ ~Executed("writeFile")
               /\ txfContent = ""
               /\ outputFile = PreviousFile
               /\ (pc = "done" => /\ result.returned
                                  /\ ~result.success
                                  /\ result.exitCode = 3))
    /\ ((Executed("filter") /\ HasUnmappedPayee)
            ~> (pc = "done" /\ result.exitCode = 3))

C1_Witness ==
    /\ pc = "done"
    /\ Executed("preflight")
    /\ HasUnmappedPayee
    /\ result.exitCode = 3
    /\ \E i \in 1..Len(csvRows) : lookupMerchant(csvRows[i].merchant, config).found

\* C2: validateAllMerchantsMapped lists exactly the names lookupMerchant does
\* not find, each as it was given and in the order of the input, and valid
\* holds iff the list is empty.
C2_UnmappedExactly ==
    (call.fn = "validateAllMerchantsMapped" /\ call.done) =>
        LET merchants == call.arg.merchants
            unmapped  == call.ret.unmappedMerchants
            missing   == {i \in 1..Len(merchants) :
                            ~lookupMerchant(merchants[i], call.arg.config).found}
        IN /\ Len(unmapped) = Cardinality(missing)
           /\ \E at \in [1..Len(unmapped) -> missing] :
                 /\ \A k, l \in 1..Len(unmapped) : k < l => at[k] < at[l]
                 /\ \A k \in 1..Len(unmapped) : unmapped[k] = merchants[at[k]]
           /\ call.ret.valid <=> (Len(unmapped) = 0)

C2_Witness ==
    /\ call.fn = "validateAllMerchantsMapped"
    /\ call.done
    /\ Len(call.arg.merchants) = 3
    /\ lookupMerchant(call.arg.merchants[2], call.arg.config).found
    /\ Len(call.ret.unmappedMerchants) = 2
    /\ call.ret.unmappedMerchants[1] /= call.ret.unmappedMerchants[2]
    /\ ~call.ret.valid

\* the stages a run executes, in the order of convert()
ExecutedOrder ==
    IF options.dryRun
    THEN SelectSeq(StageOrder, LAMBDA stage : stage /= "writeFile")
    ELSE StageOrder

\* C3: the stages run in the order of convert(); no error is recorded while
\* the run goes on; the stage that fails is the last one executed, nothing
\* runs after it, and errors holds the errors of that stage alone.
C3_StagesInOrder ==
    /\ [](/\ Len(trace) <= Len(ExecutedOrder)
          /\ trace = SubSeq(ExecutedOrder, 1, Len(trace))
          /\ (pc /= "done" => errors = <<>> /\ ~result.returned)
          /\ (pc = "done" =>
                /\ result.returned
                /\ result.success <=> (errors = <<>>)
                /\ ~result.success =>
                      CASE Last(trace) = "preflight" ->
                               errors = UnmappedErrors(merchantCheck.unmappedMerchants)
                        [] Last(trace) = "validateRows" ->
                               errors = rowValidation.errors
                        [] OTHER -> Len(errors) = 1))
    /\ [][/\ pc /= "done"
          /\ errors' /= errors => (errors = <<>> /\ pc' = "done")]_vars

C3_Witness ==
    /\ pc = "done"
    /\ ~result.success
    /\ Last(trace) = "validateRows"
    /\ Len(warnings) > 0
    /\ Len(errors) > 1

\* C4: every run of convert() ends by returning a result; no run raises and
\* no run stays in a stage.
C4_ConvertReturns ==
    /\ <>(pc = "done" /\ result.returned)
    /\ [](pc /= "raised")

C4_Witness ==
    /\ pc = "done"
    /\ result.returned
    /\ Executed("resolve")
    /\ Executed("writeFile")
    /\ ~result.success

\* the failures the outcome classifies
FailureClass(stage) ==
    CASE stage \in {"loadConfig", "validateConfig"} -> "configuration"
      [] stage = "parseCSV"     -> "parse"
      [] stage = "preflight"    -> "unmapped"
      [] stage = "validateRows" -> "rowValidation"
      [] stage = "writeFile"    -> "io"

FailingStages ==
    {"loadConfig", "validateConfig", "parseCSV", "preflight", "validateRows",
     "writeFile"}

StartsWith(message, prefix) ==
    Len(message) >= Len(prefix) /\ SubSeq(message, 1, Len(prefix)) = prefix

\* C6: when the output write fails, the run is unsuccessful with the exitCode
\* of an I/O failure and a write-failure error, and transactionsProcessed,
\* totalAmount and uniqueOrganizations are the values computed from the
\* resolved transactions.
C6_CountsSurviveWriteFailure ==
    (pc = "done" /\ Last(trace) = "writeFile" /\ errors /= <<>>) =>
        /\ result.returned
        /\ ~result.success
        /\ result.exitCode = 2
        /\ StartsWith(Last(errors), "Failed to write output file: ")
        /\ result.transactionsProcessed = Len(resolvedTransactions)
        /\ result.totalAmount = SumAmounts(resolvedTransactions)
        /\ result.uniqueOrganizations = UniqueOrgs(resolvedTransactions)

C6_Witness ==
    /\ pc = "done"
    /\ Last(trace) = "writeFile"
    /\ ~result.success
    /\ Len(resolvedTransactions) = 2
    /\ UniqueOrgs(resolvedTransactions) = 2
    /\ result.transactionsProcessed = 0
    /\ result.uniqueOrganizations = 0

\* the errors of every row of rows, row after row
ErrorsOfRows(rows) == Flatten([i \in 1..Len(rows) |-> validateRow(rows[i]).errors])

\* C7: once the rows have been validated, the errors of the validation are the
\* errors of every row in row order, every row gave a transaction or an error,
\* valid holds iff no row gave an error, and when it does not hold the run
\* has ended as a row-validation failure whose errors are all of them.
C7_AllRowErrors ==
    Executed("validateRows") =>
        /\ rowValidation.errors = ErrorsOfRows(csvRows)
        /\ Len(rowValidation.transactions)
             = Cardinality({i \in 1..Len(csvRows) : validateRow(csvRows[i]).valid})
        /\ rowValidation.valid
             <=> \A i \in 1..Len(csvRows) : validateRow(csvRows[i]).errors = <<>>
        /\ ~rowValidation.valid =>
              /\ pc = "done"
              /\ Last(trace) = "validateRows"
              /\ result.returned
              /\ ~result.success
              /\ result.exitCode = 1
              /\ errors = ErrorsOfRows(csvRows)

C7_Witness ==
    /\ pc = "done"
    /\ Last(trace) = "validateRows"
    /\ Len(csvRows) = 2
    /\ \A i \in 1..2 : ~validateRow(csvRows[i]).valid
    /\ Len(errors) = 2
    /\ errors[1] /= errors[2]

\* the number of detail blocks of a TXF document: the lines that are "TD"
DetailBlocks(content) ==
    Cardinality({i \in 1..(Len(content) - Len(CRLF \o "TD" \o CRLF) + 1) :
                   SubSeq(content, i, i + Len(CRLF \o "TD" \o CRLF) - 1)
                     = CRLF \o "TD" \o CRLF})

\* C8: a run that passed preflight and row validation ends with as many
\* resolved transactions, as many detail blocks in the generated output and
\* as many transactionsProcessed as rows were left by the category filter,
\* the resolved transactions being those rows in their order.
C8_RowCountPreserved ==
    (pc = "done" /\ Executed("validateRows") /\ rowValidation.valid) =>
        /\ Len(resolvedTransactions) = Len(csvRows)
        /\ \A i \in 1..Len(resolvedTransactions) :
              resolvedTransactions[i].lineNumber = csvRows[i].lineNumber
        /\ DetailBlocks(txfContent) = Len(csvRows)
        /\ result.transactionsProcessed = Len(csvRows)

C8_Witness ==
    /\ pc = "done"
    /\ rowValidation.valid
    /\ Len(csvRows) = 2
    /\ Len(resolvedTransactions) = 2
    /\ DetailBlocks(txfContent) = 2
    /\ result.transactionsProcessed = 0

\* the value of the amount string before its sign is normalised
SourceValue(amountString) == parseFloat(RemoveChars(Trim(amountString), {"$", ","}))

\* C9: an amount that parseAmount accepts is stored strictly negative; a
\* source value above zero is stored negated, one below zero as it is, and
\* zero, like a string that is no number, is not accepted.
C9_SignInvariant ==
    (call.fn = "parseAmount" /\ call.done) =>
        /\ call.ret.ok => call.ret.value.m < 0
        /\ call.ret.ok <=> (~SourceValue(call.arg).nan /\ SourceValue(call.arg).m /= 0)
        /\ (~SourceValue(call.arg).nan /\ SourceValue(call.arg).m > 0) =>
              call.ret.value = [m |-> 0 - SourceValue(call.arg).m,
                                e |-> SourceValue(call.arg).e]
        /\ (~SourceValue(call.arg).nan /\ SourceValue(call.arg).m < 0) =>
              call.ret.value = [m |-> SourceValue(call.arg).m,
                                e |-> SourceValue(call.arg).e]

C9_Witness ==
    /\ call.fn = "parseAmount"
    /\ call.done
    /\ call.ret.ok
    /\ SourceValue(call.arg).m > 0
    /\ SourceValue(call.arg).e > 0
    /\ Includes(call.arg, "$")

\* a row whose amount string is a number equal to zero
ParsesToZero(row) == ~SourceValue(row.amount).nan /\ SourceValue(row.amount).m = 0

\* what the run reports for a row whose amount is zero
ZeroAmountError(row) == "Amount cannot be zero (line " \o ToString(row.lineNumber) \o ")"

\* a run that ended as a row-validation failure with nothing counted and
\* nothing generated or written
AbortedAtRowValidation ==
    /\ pc = "done"
    /\ Last(trace) = "validateRows"
    /\ result.returned
    /\ ~result.success
    /\ result.exitCode = 1
    /\ result.transactionsProcessed = 0
    /\ result.totalAmount = NumZero
    /\ result.uniqueOrganizations = 0
    /\ ~Executed("generateTxf")
    /\ ~Executed("writeFile")
    /\ txfContent = ""
    /\ outputFile = PreviousFile

\* C10 as stated: a run that ended with a row whose amount is zero among its
\* rows ended as a row-validation failure that reports 'Amount cannot be zero'
\* for that row, with zero counts and no output.
C10_ZeroAmountAlwaysAborts ==
    pc = "done" =>
        \A i \in 1..Len(csvRows) :
            ParsesToZero(csvRows[i]) =>
                /\ \E k \in 1..Len(errors) : errors[k] = ZeroAmountError(csvRows[i])
                /\ AbortedAtRowValidation

\* a row that validateRow takes as far as parsing its amount
AmountIsParsed(row) ==
    /\ ~IsBlank(row.date)
    /\ ~IsBlank(row.merchant)
    /\ ~IsBlank(row.amount)
    /\ parseDate(row.date).ok

\* C10: once the rows have been validated, a row with its required fields, a
\* valid date and an amount of zero has the error 'Amount cannot be zero
\* (line N)' and no 'Invalid amount format' error, and the run has ended as a
\* row-validation failure with zero counts and no output generated or written.
C10_ZeroAmountRejected ==
    Executed("validateRows") =>
        \A i \in 1..Len(csvRows) :
            (ParsesToZero(csvRows[i]) /\ AmountIsParsed(csvRows[i])) =>
                /\ validateRow(csvRows[i]).errors = <<ZeroAmountError(csvRows[i])>>
                /\ \E k \in 1..Len(errors) : errors[k] = ZeroAmountError(csvRows[i])
                /\ \A k \in 1..Len(errors) :
                      ~(/\ StartsWith(errors[k], "Invalid amount format: ")
                        /\ Includes(errors[k],
                                    "(line " \o ToString(csvRows[i].lineNumber) \o ")"))
                /\ AbortedAtRowValidation

C10_Witness ==
    /\ AbortedAtRowValidation
    /\ Len(csvRows) = 2
    /\ validateRow(csvRows[1]).valid
    /\ ParsesToZero(csvRows[2])
    /\ errors = <<ZeroAmountError(csvRows[2])>>

\* the positions of payees that hold the call's name, the name taken without
\* its surrounding white space and in lower case
MatchingEntries(payees) ==
    {i \in 1..Len(payees) : payees[i] = toLowerCase(Trim(call.arg.name))}

\* the configured payees of the call without their surrounding white space
\* and in lower case
TrimmedPayees ==
    ArrayMap(LAMBDA m : toLowerCase(Trim(m.merchant)), call.arg.config.mappings)

\* the configured payees of the call in lower case
LowerCasedPayees ==
    ArrayMap(LAMBDA m : toLowerCase(m.merchant), call.arg.config.mappings)

\* C11 as stated: lookupMerchant finds a mapping iff a configured payee and
\* the name are equal once the case and the surrounding white space of both
\* are ignored, and then it returns the earliest such mapping.
C11_MatchIgnoringCaseAndSpace ==
    (call.fn = "lookupMerchant" /\ call.done) =>
        /\ call.ret.found <=> MatchingEntries(TrimmedPayees) /= {}
        /\ call.ret.found =>
              call.ret.mapping
                = call.arg.config.mappings[SetMin(MatchingEntries(TrimmedPayees))]

\* C11: lookupMerchant finds a mapping iff a configured payee, taken as it is
\* written but for its case, equals the name without its surrounding white
\* space and but for its case; it returns the earliest such mapping, and
\* 'not found' otherwise (a name that only starts with or contains a payee
\* is not found).
C11_MatchNameTrimmed ==
    (call.fn = "lookupMerchant" /\ call.done) =>
        /\ call.ret.found <=> MatchingEntries(LowerCasedPayees) /= {}
        /\ call.ret.found =>
              call.ret.mapping
                = call.arg.config.mappings[SetMin(MatchingEntries(LowerCasedPayees))]
        /\ ~call.ret.found => call.ret = NotFound

C11_Witness ==
    /\ call.fn = "lookupMerchant"
    /\ call.done
    /\ call.ret.found
    /\ call.arg.name = "  RED CROSS  "
    /\ Cardinality(MatchingEntries(LowerCasedPayees)) = 2
    /\ call.ret.mapping = RedCrossAgain

\* C12: lookupMerchantFast on the Map createMerchantLookupMap builds returns
\* what lookupMerchant returns on the configuration, the same mapping or the
\* same 'not found'.
C12_FastEqualsLinear ==
    (call.fn = "lookupMerchantFast" /\ call.done) =>
        call.ret = lookupMerchant(call.arg.name, call.arg.config)

C12_Witness ==
    /\ call.fn = "lookupMerchantFast"
    /\ call.done
    /\ call.arg.config.mappings = <<RedCross, RedCrossAgain, UnitedWay>>
    /\ call.arg.name = "red cross"
    /\ call.ret = [found |-> TRUE, mapping |-> RedCross]

\* the calendar day, the organization and the amount of a transaction or of
\* a group
Triple(t) == <<t.date.year, t.date.month, t.date.date, t.organization, t.amount>>

\* the positions of the transactions that have the triple of t
Members(transactions, t) ==
    {i \in 1..Len(transactions) : Triple(transactions[i]) = Triple(t)}

OutOfYearRows ==
    {i \in 1..Len(rowValidation.transactions) :
        rowValidation.transactions[i].date.year /= options.taxYear}

\* the validated rows of 250 or more
LargeRows ==
    {i \in 1..Len(rowValidation.transactions) :
        NumGE(NumAbs(rowValidation.transactions[i].amount), NumInt(250))}

\* the triples that two or more resolved transactions have
SharedTriples ==
    {Triple(resolvedTransactions[i]) : i \in
        {j \in 1..Len(resolvedTransactions) :
            Cardinality(Members(resolvedTransactions, resolvedTransactions[j])) >= 2}}

LineCount(content) ==
    Cardinality({i \in 1..Len(content) :
                   \/ SubSeq(content, i, i) = "\n"
                   \/ SubSeq(content, i, i) = "\r" /\ Ch(content, i + 1) /= "\n"})

\* the header block of the call's options
HeaderBlock ==
    "V042" \o CRLF
    \o "Acsv-to-txf "
    \o (IF call.arg.options.appVersion = "" THEN "1.0.0"
        ELSE call.arg.options.appVersion) \o CRLF
    \o "D" \o formatDate(call.arg.options.date) \o CRLF

\* the detail block of a transaction
DetailBlock(t) ==
    "TD" \o CRLF \o "N280" \o CRLF \o "C1" \o CRLF \o "L1" \o CRLF
    \o "$" \o formatAmount(t.amount) \o CRLF
    \o "X" \o formatDetailLine(t) \o CRLF
    \o "^" \o CRLF

\* C15: the text generateTxf returns is the header block followed by the
\* detail blocks of the transactions in their order, and it has 3 + 7n lines
\* for n transactions.
C15_HeaderThenBlocks ==
    (call.fn = "generateTxf" /\ call.done) =>
        /\ call.ret = HeaderBlock \o Concat(ArrayMap(DetailBlock, call.arg.transactions))
        /\ LineCount(HeaderBlock) = 3
        /\ LineCount(call.ret) = 3 + 7 * Len(call.arg.transactions)

C15_Witness ==
    /\ call.fn = "generateTxf"
    /\ call.done
    /\ Len(call.arg.transactions) = 2
    /\ call.arg.transactions[1].account = "Chase\nChecking"
    /\ call.arg.transactions[2].account = ""
    /\ LineCount(call.ret) = 18

\* the organization part and the tax ID part of the detail line of the call
OrganizationPart ==
    IF Len(call.arg.organization) > 64 THEN SubSeq(call.arg.organization, 1, 64)
    ELSE call.arg.organization

EinPart ==
    IF call.arg.hasEin /\ call.arg.ein /= "" THEN " EIN:" \o call.arg.ein ELSE ""

C16_EveryLineEndsCRLF ==
    \A i \in 1..Len(txfContent) :
        /\ SubSeq(txfContent, i, i) = "\n" => Ch(txfContent, i - 1) = "\r"
        /\ SubSeq(txfContent, i, i) = "\r" => Ch(txfContent, i + 1) = "\n"

C16_Witness ==
    /\ pc = "done"
    /\ result.success
    /\ Len(resolvedTransactions) = 1
    /\ resolvedTransactions[1].account = "Credit\nAgricole"
    /\ Includes(txfContent, "X01/16/2026 Credit\nAgricole United Way Worldwide" \o CRLF)

\* the characters of 7-bit ASCII that a text of the model can hold: the
\* printable ones (the grave accent aside, which no text here holds), the tab,
\* CR and LF
AsciiCharacters ==
    " !\"#$%&'()*+,-./0123456789:;<=>?@ABCDEFGHIJKLMNOPQRSTUVWXYZ[\\]^_abcdefghijklmnopqrstuvwxyz{|}~\t\r\n"

IsAscii(content) ==
    \A i \in 1..Len(content) :
        \E k \in 1..Len(AsciiCharacters) :
            SubSeq(AsciiCharacters, k, k) = SubSeq(content, i, i)

\* C17: every character of the text generateTxf returns, which is the text
\* written to the output file, is a character of 7-bit ASCII.
C17_OutputIsAscii ==
    (call.fn = "generateTxf" /\ call.done) => IsAscii(call.ret)

C17_Witness ==
    /\ call.fn = "generateTxf"
    /\ call.done
    /\ Len(call.arg.transactions) = 1
    /\ call.arg.transactions[1].account = "Chase Checking"
    /\ call.arg.transactions[1].organization = "Médecins Sans Frontières"
    /\ validateConfig([mappings |-> <<[merchant |-> "MSF",
                                       organization |-> "Médecins Sans Frontières",
                                       hasEin |-> FALSE, ein |-> ""]>>]).ok
    /\ IsAscii("X12/31/2025 Chase Checking ")
    /\ ~IsAscii(call.ret)

\* C20: at every moment the destination file holds either what it held
\* before the run or the complete generated text, never a part of it.
C20_AtomicPersist ==
    \/ outputFile = PreviousFile
    \/ /\ Executed("generateTxf")
       /\ outputFile = [content |-> txfContent]

C20_Witness ==
    /\ pc = "done"
    /\ Last(trace) = "writeFile"
    /\ ~result.success
    /\ outputFile /= PreviousFile
    /\ Len(outputFile.content) < Len(txfContent)
    /\ outputFile.content = SubSeq(txfContent, 1, Len(outputFile.content))

\* a string of two digits, "/", two digits, "/" and four digits
IsPaddedSlashDate(s) ==
    /\ Len(s) = 10
    /\ \A i \in {1, 2, 4, 5, 7, 8, 9, 10} : SubSeq(s, i, i) \in Digits
    /\ SubSeq(s, 3, 3) = "/"
    /\ SubSeq(s, 6, 6) = "/"

\* C19: a date parseDate returned is formatted by formatDate to a string that
\* parseDate parses to the same year, month and day; and a zero-padded
\* MM/DD/YYYY string parseDate accepted is what formatDate makes of its date.
C19_DateRoundTrip ==
    (call.fn = "parseDate" /\ call.done /\ call.ret.ok) =>
        /\ parseDate(formatDate(call.ret.value)).ok
        /\ parseDate(formatDate(call.ret.value)).value = call.ret.value
        /\ IsPaddedSlashDate(call.arg) => formatDate(call.ret.value) = call.arg

C19_Witness ==
    /\ call.fn = "parseDate"
    /\ call.done
    /\ call.arg = "01/01/0999"
    /\ call.ret.ok
    /\ call.ret.value = [year |-> 999, month |-> 0, date |-> 1]
    /\ formatDate(call.ret.value) = "01/01/999"
    /\ ~parseDate("01/01/999").ok

\* the run ended on an error of reading or writing a file: a configuration or
\* CSV file that could not be read, or an output file that could not be written
EndedOnFileError ==
    \/ Last(trace) = "loadConfig" /\ filesRead.config.read /= "ok"
    \/ Last(trace) = "parseCSV" /\ filesRead.csv.read /= "ok"
    \/ Last(trace) = "writeFile"

\* the exit code the documented table gives the run
DocumentedExitCode ==
    IF result.success THEN 0
    ELSE IF Last(trace) = "preflight" THEN 3
    ELSE IF EndedOnFileError THEN 2
    ELSE 1

\* C21: a run that has returned carries the exit code of the documented
\* table: 0 for success, 3 for unmapped merchants, 2 for file errors only and
\* 1 for every other failure (bad headers, malformed CSV or YAML, empty config).
C21_ExitCodeTable ==
    pc = "done" => result.exitCode = DocumentedExitCode

C21_Witness ==
    /\ pc = "done"
    /\ trace = <<"loadConfig">>
    /\ filesRead.config.read = "ok"
    /\ filesRead.config.yaml = "syntax"
    /\ errors = <<"Failed to parse configuration file: Implicit map keys need to be followed by map values">>
    /\ result.exitCode = 2
    /\ DocumentedExitCode = 1

\* the data records of the CSV file read whose category is the requested one
MatchingRecords ==
    {i \in 2..Len(filesRead.csv.records) :
        /\ filesRead.csv.records[i] /= <<>>
        /\ \/ options.category = ""
           \/ toLowerCase(Field(filesRead.csv.records[i], 3)) = toLowerCase(options.category)}

\* C22: when the CSV file was parsed and none of its data records has the
\* requested category (or it has no data record), the run returns at the
\* empty check with success, exitCode 0, all counts 0 and no error.
C22_EmptyInputSucceeds ==
    (Executed("emptyCheck") /\ MatchingRecords = {}) =>
        /\ pc = "done"
        /\ Last(trace) = "emptyCheck"
        /\ result = [returned |-> TRUE, success |-> TRUE, exitCode |-> 0,
                     transactionsProcessed |-> 0, totalAmount |-> NumZero,
                     uniqueOrganizations |-> 0]
        /\ errors = <<>>

C22_Witness ==
    /\ pc = "done"
    /\ Last(trace) = "emptyCheck"
    /\ options.category = "Donations"
    /\ Len(filesRead.csv.records) = 3
    /\ Field(filesRead.csv.records[2], 2) = "Another Unknown"
    /\ Field(filesRead.csv.records[3], 2) = "UNITED WAY"
    /\ MatchingRecords = {}
    /\ result.success

\* the required fields of the row of the call that are blank, in the order
\* date, payee, amount, under the names the errors give them
BlankFields ==
    SelectSeq(<<"Date", "Merchant", "Amount">>,
              LAMBDA name :
                  \/ name = "Date" /\ Trim(call.arg.date) = ""
                  \/ name = "Merchant" /\ Trim(call.arg.merchant) = ""
                  \/ name = "Amount" /\ Trim(call.arg.amount) = "")

\* C23: validateRow on a row with a blank required field returns no
\* transaction and one 'Missing required field' error per blank field, naming
\* the field and the line, in the order date, payee, amount, and nothing else.
C23_MissingFields ==
    (call.fn = "validateRow" /\ call.done /\ Len(BlankFields) > 0) =>
        /\ ~call.ret.valid
        /\ ~call.ret.hasTransaction
        /\ Len(call.ret.errors) = Len(BlankFields)
        /\ \A i \in 1..Len(BlankFields) :
              call.ret.errors[i] = "Missing required field: " \o BlankFields[i]
                                   \o " (line " \o ToString(call.arg.lineNumber) \o ")"

C23_Witness ==
    /\ call.fn = "validateRow"
    /\ call.done
    /\ call.arg.date = "02/30/2026"
    /\ call.arg.merchant = "  "
    /\ call.arg.amount = ""
    /\ call.arg.lineNumber = 7
    /\ call.ret.errors = <<"Missing required field: Merchant (line 7)",
                           "Missing required field: Amount (line 7)">>

\* the line breaks inside a field
LineBreaks(field) ==
    Cardinality({k \in 1..Len(field) : SubSeq(field, k, k) = "\n"})

\* the number of physical lines fields occupies: one, and one more for every
\* line break inside a quoted field; an empty line occupies one
RECURSIVE PhysicalLines(_)
PhysicalLines(fields) ==
    IF Len(fields) = 0 THEN 1
    ELSE IF Len(fields) = 1 THEN 1 + LineBreaks(fields[1])
    ELSE PhysicalLines(SubSeq(fields, 1, Len(fields) - 1))
         + LineBreaks(fields[Len(fields)])

\* the physical line on which the element at index k of content starts
RECURSIVE StartLine(_, _)
StartLine(content, k) ==
    IF k = 1 THEN 1
    ELSE StartLine(content, k - 1) + PhysicalLines(content[k - 1])

\* the index in content of its n-th record
RecordIndex(content, n) ==
    CHOOSE k \in 1..Len(content) :
        /\ content[k] /= <<>>
        /\ Cardinality({j \in 1..k : content[j] /= <<>>}) = n

\* C24: when parseCSV has returned, every row carries as lineNumber the
\* physical line of the file on which its record starts.
C24_PhysicalLineNumbers ==
    pc = "filter" =>
        \A i \in 1..Len(csvRows) :
            csvRows[i].lineNumber
                = StartLine(filesRead.csv.records,
                            RecordIndex(filesRead.csv.records, i + 1))

C24_Witness ==
    /\ pc = "filter"
    /\ Len(filesRead.csv.records) = 5
    /\ filesRead.csv.records[3] = <<>>
    /\ filesRead.csv.records[4] = <<>>
    /\ Len(csvRows) = 2
    /\ csvRows[1].lineNumber = 2
    /\ csvRows[2].lineNumber = 3
    /\ csvRows[2].date = "02/30/2026"
    /\ StartLine(filesRead.csv.records, 5) = 5

\* the case-folded key of the payee of a row
PayeeKey(row) == toLowerCase(Trim(row.merchant))

\* the trimmed payee of the first row of rows that carries the key
FirstPayeeWith(rows, key) ==
    Trim(rows[CHOOSE k \in 1..Len(rows) :
                  /\ PayeeKey(rows[k]) = key
                  /\ \A j \in 1..(k - 1) : PayeeKey(rows[j]) /= key].merchant)

\* the rows of the call in every order
Reordered ==
    {[i \in 1..Len(call.arg) |-> call.arg[p[i]]] :
        p \in {f \in [1..Len(call.arg) -> 1..Len(call.arg)] :
                  \A i, j \in 1..Len(call.arg) : i /= j => f[i] /= f[j]}}

\* the orders in which every key has the same first payee as in the call
SameFirstOccurrences ==
    {q \in Reordered :
        \A k \in 1..Len(q) :
            FirstPayeeWith(q, PayeeKey(q[k])) = FirstPayeeWith(call.arg, PayeeKey(q[k]))}

\* C25: extractUniqueMerchants returns one entry per case-folded trimmed
\* payee of the rows, each the trimmed payee of the first row with that key,
\* in case-insensitive alphabetical order, the same list for every order of
\* the rows that has the same first occurrences.
C25_UniqueMerchants ==
    (call.fn = "extractUniqueMerchants" /\ call.done) =>
        /\ \A i, j \in 1..Len(call.ret) :
              i /= j => toLowerCase(call.ret[i]) /= toLowerCase(call.ret[j])
        /\ \A k \in 1..Len(call.arg) :
              \E i \in 1..Len(call.ret) : toLowerCase(call.ret[i]) = PayeeKey(call.arg[k])
        /\ \A i \in 1..Len(call.ret) :
              /\ \E k \in 1..Len(call.arg) : PayeeKey(call.arg[k]) = toLowerCase(call.ret[i])
              /\ call.ret[i] = FirstPayeeWith(call.arg, toLowerCase(call.ret[i]))
        /\ \A i \in 1..(Len(call.ret) - 1) :
              LocaleLess(toLowerCase(call.ret[i]), toLowerCase(call.ret[i + 1]))
        /\ \A q \in SameFirstOccurrences : extractUniqueMerchants(q) = call.ret

C25_Witness ==
    /\ call.fn = "extractUniqueMerchants"
    /\ call.done
    /\ Len(call.arg) = 3
    /\ call.arg[1].merchant = "united way"
    /\ call.arg[2].merchant = "Red Cross"
    /\ call.arg[3].merchant = "RED CROSS"
    /\ call.ret = <<"Red Cross", "united way">>
    /\ Cardinality(SameFirstOccurrences) = 3

\* what the resolution loop reads from the index for a validated transaction
IndexEntry(tx) == MapGet(createMerchantLookupMap(config), toLowerCase(tx.merchant))

\* C26: once the preflight check has passed, the index holds a mapping for
\* every validated transaction, the mapping lookupMerchant finds for its
\* payee, and the resolved transaction carries that mapping's organization;
\* the resolution loop never reads an absent mapping.
C26_ResolutionNeverMisses ==
    /\ pc /= "raised"
    /\ Executed("validateRows") =>
          \A i \in 1..Len(rowValidation.transactions) :
              /\ IndexEntry(rowValidation.transactions[i]).found
              /\ IndexEntry(rowValidation.transactions[i])
                     = lookupMerchant(rowValidation.transactions[i].merchant, config)
    /\ Executed("resolve") =>
          /\ Len(resolvedTransactions) = Len(rowValidation.transactions)
          /\ \A i \in 1..Len(resolvedTransactions) :
                resolvedTransactions[i].organization
                    = lookupMerchant(rowValidation.transactions[i].merchant,
                                     config).mapping.organization

C26_Witness ==
    /\ pc = "findDuplicates"
    /\ config.mappings = <<RedCross, RedCrossAgain, UnitedWay>>
    /\ Len(rowValidation.transactions) = 2
    /\ rowValidation.transactions[1].merchant = "red cross"
    /\ rowValidation.transactions[2].merchant = "UNITED WAY"
    /\ resolvedTransactions[1].organization = "American National Red Cross"
    /\ resolvedTransactions[2].organization = "United Way Worldwide"

\* the rows of the CSV file read, numbered as parseCSV numbers them, whose
\* category is the requested one whatever its case
MatchingRows ==
    SelectSeq([i \in 1..(Len(parse(filesRead.csv.records)) - 1) |->
                   RowOf(parse(filesRead.csv.records)[i + 1], i)],
              LAMBDA row : \/ options.category = ""
                           \/ toLowerCase(row.category) = toLowerCase(options.category))

\* C27: from the category filter on, the run is the run of the matching rows
\* under their line numbers: they are the rows kept, the preflight check and
\* the row validation are those of the matching rows, every unmapped payee,
\* error, warning, resolved transaction and detail block comes from a matching
\* row, and the counts are those of the matching rows.
C27_FilterFirst ==
    Executed("filter") =>
        /\ csvRows = MatchingRows
        /\ Executed("preflight") =>
              /\ merchantCheck
                    = validateAllMerchantsMapped(extractUniqueMerchants(MatchingRows), config)
              /\ \A i \in 1..Len(merchantCheck.unmappedMerchants) :
                    \E k \in 1..Len(MatchingRows) :
                        toLowerCase(Trim(MatchingRows[k].merchant))
                            = toLowerCase(merchantCheck.unmappedMerchants[i])
        /\ Executed("validateRows") => rowValidation = validateRows(MatchingRows)
        /\ (pc = "done" /\ Last(trace) = "validateRows")
              => errors = ErrorsOfRows(MatchingRows)
        /\ \A i \in 1..Len(warnings) :
              StartsWith(warnings[i], "Line ") =>
                  \E k \in 1..Len(MatchingRows) :
                      StartsWith(warnings[i],
                                 "Line " \o ToString(MatchingRows[k].lineNumber) \o ": ")
        /\ Executed("resolve") =>
              /\ Len(resolvedTransactions) = Len(MatchingRows)
              /\ \A i \in 1..Len(MatchingRows) :
                    resolvedTransactions[i].lineNumber = MatchingRows[i].lineNumber
        /\ Executed("generateTxf") => DetailBlocks(txfContent) = Len(MatchingRows)
        /\ (pc = "done" /\ result.success) =>
              /\ result.transactionsProcessed = Len(MatchingRows)
              /\ result.totalAmount = SumAmounts(validateRows(MatchingRows).transactions)

C27_Witness ==
    /\ pc = "done"
    /\ result.success
    /\ options.category = "Donations"
    /\ Len(filesRead.csv.records) = 3
    /\ Field(filesRead.csv.records[2], 2) = "Another Unknown"
    /\ Field(filesRead.csv.records[2], 3) = "Groceries"
    /\ Field(filesRead.csv.records[2], 7) = "abc"
    /\ Field(filesRead.csv.records[3], 3) = "donations"
    /\ result.transactionsProcessed = 1
    /\ resolvedTransactions[1].lineNumber = 3
    /\ errors = <<>>

\* the detail block generateRecord makes of the transaction validateRow
\* returned, resolved to a mapping
RecordOfValidatedRow ==
    generateRecord(ResolveTransaction(call.ret.transaction, RedCross))

\* C28: the detail block of a transaction validateRow accepted has an amount
\* line other than '$-0.00' and '$0.00'.
C28_NoZeroAmountLine ==
    (call.fn = "validateRow" /\ call.done /\ call.ret.valid) =>
        /\ ~Includes(RecordOfValidatedRow, CRLF \o "$-0.00" \o CRLF)
        /\ ~Includes(RecordOfValidatedRow, CRLF \o "$0.00" \o CRLF)

C28_Witness ==
    /\ call.fn = "validateRow"
    /\ call.done
    /\ call.arg.amount = "0.001"
    /\ call.ret.valid
    /\ call.ret.transaction.amount = [m |-> 0 - 1, e |-> 3]
    /\ formatAmount(call.ret.transaction.amount) = "-0.00"
    /\ Includes(RecordOfValidatedRow, "L1" \o CRLF \o "$-0.00" \o CRLF \o "X01/15/2026")

\* a data record of the CSV file read has a blank payee
BlankPayeeInFile ==
    \E i \in 2..Len(filesRead.csv.records) :
        /\ filesRead.csv.records[i] /= <<>>
        /\ Field(filesRead.csv.records[i], 2) = ""

\* a row left by the category filter has a blank payee
BlankPayeeKept ==
    \E k \in 1..Len(MatchingRows) : MatchingRows[k].merchant = ""

\* the run ended at the preflight check, with exitCode 3 and the blank name
\* among the unmapped ones
StoppedOnBlankPayee ==
    /\ Last(trace) = "preflight"
    /\ ~result.success
    /\ result.exitCode = 3
    /\ \E i \in 1..Len(merchantCheck.unmappedMerchants) :
          merchantCheck.unmappedMerchants[i] = ""
    /\ \E i \in 1..Len(errors) : errors[i] = "  - "

\* no error of the run is the missing-payee error of row validation
NoMissingMerchantError ==
    \A i \in 1..Len(errors) :
        ~StartsWith(errors[i], "Missing required field: Merchant")

\* C29 as stated: a run whose configuration was accepted and whose CSV holds
\* a row with a blank payee ends at the preflight check with exitCode 3 and the
\* blank name unmapped, and no run reports a missing payee.
C29_BlankPayeeAlwaysStops ==
    /\ (pc = "done" /\ Executed("emptyCheck") /\ BlankPayeeInFile) => StoppedOnBlankPayee
    /\ NoMissingMerchantError

\* C29, amended: a run whose configuration was accepted and in which a row
\* with a blank payee is left by the category filter ends at the preflight
\* check with exitCode 3 and the blank name unmapped, and no run reports a
\* missing payee.
C29_BlankPayeeStopsAtPreflight ==
    /\ (pc = "done" /\ Executed("emptyCheck") /\ BlankPayeeKept) => StoppedOnBlankPayee
    /\ NoMissingMerchantError

C29_Witness ==
    /\ pc = "done"
    /\ options.category = "Donations"
    /\ config.mappings = <<RedCross, UnitedWay>>
    /\ Len(filesRead.csv.records) = 3
    /\ Field(filesRead.csv.records[2], 2) = "RED CROSS"
    /\ Field(filesRead.csv.records[3], 2) = ""
    /\ Field(filesRead.csv.records[3], 3) = "Donations"
    /\ BlankPayeeKept
    /\ merchantCheck.unmappedMerchants = <<"">>
    /\ result.exitCode = 3

\* how many times the run has executed the stage
TimesExecuted(stage) == Cardinality({i \in 1..Len(trace) : trace[i] = stage})

\* everything that has to hold before the output file is written
ReadyToWrite ==
    /\ filesRead.config.read = "ok"
    /\ filesRead.config.yaml = "ok"
    /\ config.mappings = filesRead.config.mappings
    /\ validateConfig(config).ok
    /\ filesRead.csv.read = "ok"
    /\ filesRead.csv.parse = "ok"
    /\ Len(parse(filesRead.csv.records)) >= 1
    /\ hasValidHeaders(parse(filesRead.csv.records)[1])
    /\ Len(MatchingRows) >= 1
    /\ csvRows = MatchingRows
    /\ \A k \in 1..Len(csvRows) : lookupMerchant(csvRows[k].merchant, config).found
    /\ ErrorsOfRows(csvRows) = <<>>
    /\ ~options.dryRun

\* C30: the output file is written at most once in a run, only after the
\* configuration was loaded and validated, the CSV parsed, a row left by the
\* filter, the preflight check and the row validation passed, and not in a
\* dry run; in a run without a write the destination is what it was.
C30_WriteOnceAfterAllChecks ==
    /\ TimesExecuted("writeFile") <= 1
    /\ Executed("writeFile") =>
          /\ ReadyToWrite
          /\ Len(trace) >= 11
          /\ SubSeq(trace, 1, 11) = SubSeq(StageOrder, 1, 11)
    /\ ~Executed("writeFile") => outputFile = PreviousFile
    /\ pc = "done" /\ ~ReadyToWrite => outputFile = PreviousFile

C30_Witness ==
    /\ pc = "done"
    /\ result.success
    /\ TimesExecuted("writeFile") = 1
    /\ ReadyToWrite
    /\ Len(csvRows) = 2
    /\ outputFile = [content |-> txfContent]
    /\ outputFile /= PreviousFile

====
